---------------------------- MODULE Spec2Model ----------------------------
(***************************************************************************)
(* Model of the episode/segment resolution and stream selection pipeline   *)
(* of lib/srgssr.py: SRGSSR.open_url, SRGSSR.build_episode_menu,           *)
(* SRGSSR.get_auth_url and SRGSSR.play_video.                              *)
(*                                                                         *)
(* Representation of the Python values:                                    *)
(*   - an identifier string is the sequence of its ':'-separated parts:    *)
(*     'abc' is <<"abc">>, 'urn:srf:video:abc' is <<"urn","srf","video",   *)
(*     "abc">>, the empty string is <<>>;                                  *)
(*   - a dict is a function on its keys, `k in d` is k \in DOMAIN d;       *)
(*   - None-or-value is a sequence of length 0 (None) or 1;                *)
(*   - a URL is a record of the parts urlparse yields: path (the segments  *)
(*     after the leading '/'), query (the list of <<name, value>> pairs    *)
(*     parse_qsl yields) and an opaque origin that stands for scheme,      *)
(*     host and the file name.                                             *)
(***************************************************************************)
EXTENDS Integers, Sequences, FiniteSets, TLC

\* ------------------------------------------------------------------------
\* Bounds of the enumerated inputs.
MaxChapters == 2
MaxRes == 2
MaxSegs == 2

None == <<>>
Some(x) == <<x>>
IsNone(o) == o = <<>>

SeqUpTo(S, n) == UNION {[1..k -> S] : k \in 0..n}

\* The least index of a set of indices, 0 when there is none: the position
\* a first-match scan (next() over a generator, a loop with break) stops at.
FirstIndex(hits) ==
  IF hits = {} THEN 0 ELSE CHOOSE k \in hits : \A j \in hits : k <= j

\* ------------------------------------------------------------------------
\* str.upper() on the protocol and media type strings that occur.
Upper(s) ==
  CASE s = "hls" -> "HLS"
    [] s = "dash" -> "DASH"
    [] s = "https" -> "HTTPS"
    [] s = "audio" -> "AUDIO"
    [] s = "video" -> "VIDEO"
    [] OTHER -> s

\* 'urn:' + self.bu + ':' + media_type + ':' + video_id
Urn(bu, media_type, id) == <<"urn", bu, media_type>> \o id

\* video_id.startswith('urn:')
StartsWithUrn(s) == Len(s) > 1 /\ s[1] = "urn"

LowerAlpha == {"urn", "srf", "video", "audio"}

\* Variant of RegexId: a string that is no URN is its own id.
RegexId_WholeString(s) ==
  IF Len(s) >= 4 /\ s[1] \in LowerAlpha /\ s[2] \in LowerAlpha
     /\ s[3] \in LowerAlpha
  THEN Some(SubSeq(s, 4, Len(s)))
  ELSE Some(s)

\* re.match(r'[a-z]+:[a-z]+:[a-z]+:(?P<id>.+)', s) and group('id'):
\* None-or-id.
RegexId(s) ==
  IF Len(s) >= 4 /\ s[1] \in LowerAlpha /\ s[2] \in LowerAlpha
     /\ s[3] \in LowerAlpha
  THEN Some(SubSeq(s, 4, Len(s)))
  ELSE None


\* ------------------------------------------------------------------------
\* open_url and json.loads.
\*
\* An HTTP exchange is [kind |-> "error"] (requests.get raises),
\* [kind |-> "http", ok |-> FALSE] or [kind |-> "http", ok |-> TRUE,
\* text |-> t]; a text is [kind |-> "empty"] (''), [kind |-> "garbage"]
\* (not JSON) or [kind |-> "json", value |-> v].
EmptyText == [kind |-> "empty"]
GarbageText == [kind |-> "garbage"]
JsonText(v) == [kind |-> "json", value |-> v]

\* self.cache: a set of [url, text] entries, at most one per URL.
CacheGet(cache, url) ==
  IF \E e \in cache : e.url = url
  THEN Some((CHOOSE e \in cache : e.url = url).text)
  ELSE None

CacheSet(cache, url, text) ==
  {e \in cache : e.url # url} \cup {[url |-> url, text |-> text]}

\* `if not cache_response`: no entry, or an entry that is the empty string.
CacheMiss(cache_response) ==
  IsNone(cache_response) \/ cache_response[1] = EmptyText

\* open_url(url, use_cache) when the server answers resp: the text handed
\* back or the exception raised, the new cache, and whether an HTTP request
\* was made.
OpenUrl(cache, url, use_cache, resp) ==
  LET cache_response == IF use_cache THEN CacheGet(cache, url) ELSE None
  IN IF CacheMiss(cache_response)
     THEN IF resp.kind = "error"
          THEN [raised |-> TRUE, exc |-> "RequestException",
                cache |-> cache, requested |-> TRUE]
          ELSE IF ~resp.ok
          THEN [raised |-> FALSE, text |-> EmptyText,
                cache |-> cache, requested |-> TRUE]
          ELSE [raised |-> FALSE, text |-> resp.text,
                cache |-> CacheSet(cache, url, resp.text),
                requested |-> TRUE]
     ELSE [raised |-> FALSE, text |-> CacheGet(cache, url)[1],
           cache |-> cache, requested |-> FALSE]

\* json.loads(text) raises ValueError unless the text is JSON.
JsonLoadsRaises(text) == text.kind # "json"

\* ------------------------------------------------------------------------
\* The tables of play_video.
\* Variant of ProtocolTable: HLS is also taken for audio.
ProtocolTable_AudioWithHls(audio) ==
  IF audio
  THEN ("HTTP" :> "") @@ ("HTTPS" :> "") @@ ("HTTP-MP3-STREAM" :> "")
       @@ ("HLS" :> "hls")
  ELSE ("HLS" :> "hls") @@ ("DASH" :> "mpd")

ProtocolTable(audio) ==
  IF audio THEN ("HTTP" :> "") @@ ("HTTPS" :> "") @@ ("HTTP-MP3-STREAM" :> "")
  ELSE ("HLS" :> "hls") @@ ("DASH" :> "mpd")

WeightTable(prefer_hd) ==
  IF prefer_hd THEN ("SD" :> 1) @@ ("HD" :> 2) @@ ("HQ" :> 2)
  ELSE ("HD" :> 1) @@ ("HQ" :> 1) @@ ("SD" :> 2)

\* try: res_mf_type = protocols[res['protocol'].upper()] / except: continue
ProtocolEligible(res, protocols) ==
  /\ "protocol" \in DOMAIN res
  /\ Upper(res.protocol) \in DOMAIN protocols

\* try: res_weight = weight[res['quality']] / except: res_weight = 0
ResWeight(res, weight) ==
  IF "quality" \in DOMAIN res /\ res.quality \in DOMAIN weight
  THEN weight[res.quality]
  ELSE 0

\* Variant of SkipByWeight: a resource of equal weight is skipped too.
SkipByWeight_SkipTies(res_weight, current_weight) ==
  res_weight <= current_weight

\* if res_weight < current_weight: continue
SkipByWeight(res_weight, current_weight) == res_weight < current_weight

\* Variant of IsWidevine: every DRM type counts.
IsWidevine_AnyType(drm) == TRUE

\* if drm['type'] == 'WIDEVINE'
IsWidevine(drm) == drm.type = "WIDEVINE"

\* Variant of AdoptDrm: mf_type is not assigned.
AdoptDrm_KeepsManifestType(s, res, drm, res_weight, res_mf_type) ==
  [current_weight |-> res_weight,
   mf_type |-> s.mf_type,
   lic_url |-> Some(drm.licenseUrl),
   lic_type |-> "com.widevine.alpha",
   stream_url |-> Some(res.url)]

\* The assignments of the DRM branch for one matching entry.
AdoptDrm(s, res, drm, res_weight, res_mf_type) ==
  [current_weight |-> res_weight,
   mf_type |-> res_mf_type,
   lic_url |-> Some(drm.licenseUrl),
   lic_type |-> "com.widevine.alpha",
   stream_url |-> Some(res.url)]

\* Variant of AdoptPlain: lic_url is not assigned.
AdoptPlain_KeepsLicense(s, res, res_weight, res_mf_type) ==
  [s EXCEPT !.current_weight = res_weight,
            !.mf_type = res_mf_type,
            !.stream_url = Some(res.url)]

\* The assignments of the branch without a drmList.
AdoptPlain(s, res, res_weight, res_mf_type) ==
  [s EXCEPT !.current_weight = res_weight,
            !.mf_type = res_mf_type,
            !.lic_url = None,
            !.stream_url = Some(res.url)]

\* for drm in res['drmList']: ..., from entry k on.
RECURSIVE DrmLoop(_, _, _, _, _)
DrmLoop(s, res, res_weight, res_mf_type, k) ==
  IF k > Len(res.drmList) THEN s
  ELSE DrmLoop(IF IsWidevine(res.drmList[k])
               THEN AdoptDrm(s, res, res.drmList[k], res_weight, res_mf_type)
               ELSE s,
               res, res_weight, res_mf_type, k + 1)

\* Variant of ScanResource: a resource with a WIDEVINE entry is adopted
\* before its weight is compared.
ScanResource_DrmBeforeWeight(s, res, protocols, weight) ==
  IF ~ProtocolEligible(res, protocols) THEN s
  ELSE LET res_mf_type == protocols[Upper(res.protocol)]
           res_weight == ResWeight(res, weight)
       IN IF "drmList" \in DOMAIN res
          THEN DrmLoop(s, res, res_weight, res_mf_type, 1)
          ELSE IF SkipByWeight(res_weight, s.current_weight) THEN s
               ELSE AdoptPlain(s, res, res_weight, res_mf_type)

\* Variant of ScanResource: the drmList is not looked at.
ScanResource_IgnoreDrmList(s, res, protocols, weight) ==
  IF ~ProtocolEligible(res, protocols) THEN s
  ELSE LET res_mf_type == protocols[Upper(res.protocol)]
           res_weight == ResWeight(res, weight)
       IN IF SkipByWeight(res_weight, s.current_weight) THEN s
          ELSE AdoptPlain(s, res, res_weight, res_mf_type)

\* One iteration of `for res in resource_list` on the selection state s
\* (current_weight, stream_url, lic_url, mf_type, lic_type).
ScanResource(s, res, protocols, weight) ==
  IF ~ProtocolEligible(res, protocols) THEN s
  ELSE LET res_mf_type == protocols[Upper(res.protocol)]
           res_weight == ResWeight(res, weight)
       IN IF SkipByWeight(res_weight, s.current_weight) THEN s
          ELSE IF "drmList" \in DOMAIN res
               THEN DrmLoop(s, res, res_weight, res_mf_type, 1)
               ELSE AdoptPlain(s, res, res_weight, res_mf_type)

\* Variant of ChapterIndex: the first chapter whatever the ids.
ChapterIndex_AlwaysFirst(chapter_list, video_id) == 1

\* chapter = next((e for e in chapter_list if e.get('id') == video_id),
\*                first_chapter): the index of the chapter used (the list
\* is not empty here).
ChapterIndex(chapter_list, video_id) ==
  LET Match(e) == "id" \in DOMAIN e /\ e.id = video_id
      k == FirstIndex({i \in 1..Len(chapter_list) : Match(chapter_list[i])})
  IN IF k = 0 THEN 1 ELSE k

\* Variant of EffectiveAudio: the media type of the chapter is not looked at.
EffectiveAudio_CallerOnly(audio, chapter) == audio

\* Variant of EffectiveAudio: the media type is compared as it is written.
EffectiveAudio_CaseSensitive(audio, chapter) ==
  \/ audio
  \/ "mediaType" \in DOMAIN chapter /\ chapter.mediaType = "AUDIO"

\* if not audio: if 'mediaType' in chapter:
\*     if chapter['mediaType'].upper() == 'AUDIO': audio = True
EffectiveAudio(audio, chapter) ==
  \/ audio
  \/ "mediaType" \in DOMAIN chapter /\ Upper(chapter.mediaType) = "AUDIO"

\* Variant of MenuChapterIndex: the first chapter when none has the id.
MenuChapterIndex_Fallback(json_chapter_list, chapter_id) ==
  IF json_chapter_list = <<>> THEN 0
  ELSE ChapterIndex(json_chapter_list, chapter_id)

\* The loop of build_episode_menu over json_chapter_list: the index of the
\* first chapter whose id is chapter_id, 0 when there is none
\* (json_chapter stays None).
MenuChapterIndex(json_chapter_list, chapter_id) ==
  LET Match(e) == "id" \in DOMAIN e /\ e.id = chapter_id
  IN FirstIndex({i \in 1..Len(json_chapter_list) : Match(json_chapter_list[i])})

\* Variant of MenuSegmentIndex: the first segment when none has the id.
MenuSegmentIndex_Fallback(json_segment_list, segment_id) ==
  IF json_segment_list = <<>> THEN 0
  ELSE IF \E i \in 1..Len(json_segment_list) :
            Some(json_segment_list[i].id) = segment_id
       THEN CHOOSE i \in 1..Len(json_segment_list) :
              Some(json_segment_list[i].id) = segment_id
       ELSE 1

\* The loop of build_episode_menu over json_segment_list: the index of the
\* first segment whose id is segment_id, 0 when there is none.
MenuSegmentIndex(json_segment_list, segment_id) ==
  LET Match(e) == "id" \in DOMAIN e /\ Some(e.id) = segment_id
  IN FirstIndex({i \in 1..Len(json_segment_list) : Match(json_segment_list[i])})

\* ------------------------------------------------------------------------
\* get_auth_url.
\*
\* A JSON value is [t |-> "null"], [t |-> "list"] or [t |-> "obj", d |-> f]
\* with f the dict.
TokenUrl(url) == [to |-> "token", acl |-> <<url.path[1], url.path[2]>>]

\* spl[1], spl[2] of url.path.split('/') raise IndexError on a shorter path.
AclRaises(url) == Len(url.path) < 2

\* token.get('token', {}).get('authparams') on `json.loads(...) or {}`:
\* [raised |-> TRUE] (a value without .get) or the auth_params,
\* None-or-value.
AuthParams(value) ==
  IF value.t = "null" THEN [raised |-> FALSE, auth_params |-> None]
  ELSE IF value.t # "obj" THEN [raised |-> TRUE, exc |-> "AttributeError"]
  ELSE IF "token" \notin DOMAIN value.d
       THEN [raised |-> FALSE, auth_params |-> None]
  ELSE IF value.d.token.t # "obj"
       THEN [raised |-> TRUE, exc |-> "AttributeError"]
  ELSE IF "authparams" \notin DOMAIN value.d.token.d
       THEN [raised |-> FALSE, auth_params |-> None]
  ELSE [raised |-> FALSE, auth_params |-> Some(value.d.token.d.authparams)]

\* Variant of AppendAuthParams: the parameters of auth_params come first.
AppendAuthParams_InFront(url, auth_params) ==
  [url EXCEPT !.query = auth_params \o url.query]

\* url += ('?' if '?' not in url else '&') + auth_params, on the parsed
\* form: the parameters of auth_params follow those of url.
AppendAuthParams(url, auth_params) ==
  [url EXCEPT !.query = url.query \o auth_params]

\* get_auth_url(url) with the token service answering resp: the URL handed
\* back or the exception raised, the new cache and the request made.
GetAuthUrl(cache, url, resp) ==
  IF AclRaises(url)
  THEN [raised |-> TRUE, exc |-> "IndexError", cache |-> cache,
        requested |-> FALSE]
  ELSE LET r == OpenUrl(cache, TokenUrl(url), FALSE, resp)
       IN IF r.raised THEN r
          ELSE IF JsonLoadsRaises(r.text)
          THEN [raised |-> TRUE, exc |-> "ValueError", cache |-> r.cache,
                requested |-> r.requested]
          ELSE LET a == AuthParams(r.text.value)
               IN IF a.raised
                  THEN [raised |-> TRUE, exc |-> a.exc, cache |-> r.cache,
                        requested |-> r.requested]
                  ELSE [raised |-> FALSE,
                        url |-> IF ~IsNone(a.auth_params)
                                   /\ a.auth_params[1] # <<>>
                                THEN AppendAuthParams(url, a.auth_params[1])
                                ELSE url,
                        cache |-> r.cache, requested |-> r.requested]

\* ------------------------------------------------------------------------
\* The time window of play_video.
\*
\* The text of a query value is [s |-> "..."]; the decimal text of the
\* integer n, utils.CompatStr(n), is [n |-> n].
Str(x) == [s |-> x]
Num(n) == [n |-> n]

\* `if x:` on None-or-integer.
Truthy(o) == ~IsNone(o) /\ o[1] # 0

\* utils.try_get(segment, key, data_type=int, default=None)
TryGetInt(segment, key) ==
  IF key \in DOMAIN segment THEN Some(segment[key]) ELSE None

\* start_time = try_get(...); if start_time: start_time = start_time // 1000
MarkSeconds(mark) == IF Truthy(mark) THEN Some(mark[1] \div 1000) ELSE mark

\* if start_time and end_time
WindowApplies(start_time, end_time) == Truthy(start_time) /\ Truthy(end_time)

\* parse_qsl(parsed_url.query), with keep_blank_values left at False: the
\* (name, value) pairs of the query in order, without those whose value is
\* blank.
ParseQsl(query) == SelectSeq(query, LAMBDA p : p[2] # Str(""))

\* utils.assemble_query_string(query_list): the query text of the pairs,
\* name=value joined by &, in the order of the list.
AssembleQueryString(query_list) == query_list

\* Variant of DropStartEnd: only start is dropped.
RECURSIVE DropStartEnd_KeepsEnd(_)
DropStartEnd_KeepsEnd(query_list) ==
  IF query_list = <<>> THEN <<>>
  ELSE IF Head(query_list)[1] = "start"
       THEN DropStartEnd_KeepsEnd(Tail(query_list))
       ELSE <<Head(query_list)>> \o DropStartEnd_KeepsEnd(Tail(query_list))

\* The loop over parse_qsl(parsed_url.query) that drops start and end.
RECURSIVE DropStartEnd(_)
DropStartEnd(query_list) ==
  IF query_list = <<>> THEN <<>>
  ELSE IF Head(query_list)[1] = "start" \/ Head(query_list)[1] = "end"
       THEN DropStartEnd(Tail(query_list))
       ELSE <<Head(query_list)>> \o DropStartEnd(Tail(query_list))

\* The rewrite of auth_url with the window start_time..end_time (seconds).
ApplyWindow(auth_url, start_time, end_time) ==
  [auth_url EXCEPT !.query =
     AssembleQueryString(
       DropStartEnd(ParseQsl(auth_url.query))
         \o <<<<"start", Num(start_time)>>, <<"end", Num(end_time)>>>>)]

\* Variant of SegmentIndex: the last segment whose id is video_id.
SegmentIndex_Last(segment_list, video_id) ==
  LET hits == {i \in 1..Len(segment_list) :
                 "id" \in DOMAIN segment_list[i]
                 /\ segment_list[i].id = video_id}
  IN IF hits = {} THEN 0 ELSE CHOOSE k \in hits : \A j \in hits : j <= k

\* The segment loop of play_video: the index of the first segment whose id
\* is video_id, 0 when there is none.
SegmentIndex(segment_list, video_id) ==
  LET Match(e) == "id" \in DOMAIN e /\ e.id = video_id
  IN FirstIndex({i \in 1..Len(segment_list) : Match(segment_list[i])})

\* get_subtitles(url, name) for a caption that is no m3u8 playlist:
\* None, or the list with the subtitle URL.
GetSubtitles(url) ==
  LET query_list == ParseQsl(url.query)
      Has(k) == \E i \in 1..Len(query_list) : query_list[i][1] = k
  IN IF Has("caption") /\ Has("webvttbaseurl")
     THEN Some(<<[sub_of |-> url.origin]>>)
     ELSE None

\* ------------------------------------------------------------------------
\* The state: one invocation of play_video or build_episode_menu.
VARIABLES
  input,          \* the call's arguments, the settings, the servers' answers
  pc,             \* the position in the handler
  cache,          \* self.cache
  json_response,  \* None-or-value
  chapter,        \* None-or-value: the chapter play_video uses
  resource_list,
  idx,            \* the position of the for loop in resource_list
  current_weight,
  stream_url,     \* None-or-value
  lic_url,        \* None-or-value
  mf_type,
  lic_type,
  audio,          \* the local `audio` of play_video
  auth_url,       \* None-or-value
  requests,       \* the HTTP requests made, in order
  log,            \* the messages logged, in order
  resolved,       \* the items handed to xbmcplugin.setResolvedUrl, in order
  entries,        \* the calls of build_entry, in order
  exc,            \* None, or the exception that left the handler
  file,           \* the file of the profile directory the operation uses
  calls,          \* the locals of the invocations of write_search
  history,        \* what the operation did so far, in order
  page,           \* None, or the page argument of the menu call to come
  ret             \* what the last call returned

vars == <<input, pc, cache, json_response, chapter, resource_list, idx,
          current_weight, stream_url, lic_url, mf_type, lic_type, audio,
          auth_url, requests, log, resolved, entries, exc,
          file, calls, history, page, ret>>

\* What play_video and build_episode_menu leave alone.
others == <<file, calls, history, page, ret>>

selection == <<current_weight, stream_url, lic_url, mf_type, lic_type>>

Unbound == "unbound"

\* try_get(d, key, data_type=list, default=[])
TryGetList(d, key) == IF key \in DOMAIN d THEN d[key] ELSE <<>>

\* try_get(d, key): the string, '' by default.
TryGetStr(d, key) == IF key \in DOMAIN d THEN d[key] ELSE <<>>

\* ------------------------------------------------------------------------
\* play_video
PlayVideoUrn ==
  IF StartsWithUrn(input.video_id) THEN input.video_id
  ELSE Urn(input.bu, IF input.audio THEN "audio" ELSE "video",
           input.video_id)

Raise(e) ==
  /\ pc' = "raised"
  /\ exc' = Some(e)

Return ==
  /\ pc' = "returned"
  /\ exc' = exc

\* Lines 1443-1456: the URN, the fetch of the media composition and the
\* check of chapterList.
PlayVideoFetch ==
  /\ pc = "start"
  /\ input.op = "play_video"
  /\ LET url == [to |-> "byUrn", urn |-> PlayVideoUrn]
         r == OpenUrl(cache, url, TRUE, input.composition)
     IN /\ cache' = r.cache
        /\ requests' = IF r.requested THEN Append(requests, url) ELSE requests
        /\ IF r.raised
           THEN /\ Raise(r.exc)
                /\ UNCHANGED <<json_response, log>>
           ELSE IF JsonLoadsRaises(r.text)
           THEN /\ Raise("ValueError")
                /\ UNCHANGED <<json_response, log>>
           ELSE /\ json_response' = Some(r.text.value)
                /\ IF TryGetList(r.text.value, "chapterList") = <<>>
                   THEN /\ log' = Append(log, "no stream URL found (chapterList empty)")
                        /\ Return
                   ELSE /\ pc' = "fetched"
                        /\ UNCHANGED <<log, exc>>
  /\ UNCHANGED <<input, chapter, resource_list, idx, selection, audio,
                 auth_url, resolved, entries>>
  /\ UNCHANGED others

\* Lines 1458-1481: the chapter, its resourceList, the audio flag and the
\* start of the scan.
PlayVideoLocate ==
  /\ pc = "fetched"
  /\ LET chapter_list == TryGetList(json_response[1], "chapterList")
         ch == chapter_list[ChapterIndex(chapter_list, input.video_id)]
     IN /\ chapter' = Some(ch)
        /\ resource_list' = TryGetList(ch, "resourceList")
        /\ IF TryGetList(ch, "resourceList") = <<>>
           THEN /\ log' = Append(log, "no stream URL found (resourceList empty)")
                /\ Return
                /\ UNCHANGED <<audio, idx, selection>>
           ELSE /\ audio' = EffectiveAudio(input.audio, ch)
                /\ current_weight' = -1
                /\ stream_url' = None
                /\ lic_url' = None
                /\ idx' = 1
                /\ pc' = "scan"
                /\ UNCHANGED <<log, exc, mf_type, lic_type>>
  /\ UNCHANGED <<input, cache, json_response, auth_url, requests, resolved,
                 entries>>
  /\ UNCHANGED others

\* Lines 1483-1503: one iteration of the loop over resource_list.
PlayVideoScan ==
  /\ pc = "scan"
  /\ idx <= Len(resource_list)
  /\ LET s == [current_weight |-> current_weight, stream_url |-> stream_url,
               lic_url |-> lic_url, mf_type |-> mf_type,
               lic_type |-> lic_type]
         t == ScanResource(s, resource_list[idx], ProtocolTable(audio),
                           WeightTable(input.prefer_hd))
     IN /\ current_weight' = t.current_weight
        /\ stream_url' = t.stream_url
        /\ lic_url' = t.lic_url
        /\ mf_type' = t.mf_type
        /\ lic_type' = t.lic_type
  /\ idx' = idx + 1
  /\ UNCHANGED <<input, pc, cache, json_response, chapter, resource_list,
                 audio, auth_url, requests, log, resolved, entries, exc>>
  /\ UNCHANGED others

\* Lines 1505-1512: the end of the loop.
PlayVideoSelected ==
  /\ pc = "scan"
  /\ idx > Len(resource_list)
  /\ IF IsNone(stream_url)
     THEN /\ log' = Append(log, "no stream URL found")
          /\ Return
     ELSE /\ pc' = "auth"
          /\ UNCHANGED <<log, exc>>
  /\ UNCHANGED <<input, cache, json_response, chapter, resource_list, idx,
                 selection, audio, auth_url, requests, resolved, entries>>
  /\ UNCHANGED others

\* Variant of AudioItem: the license of the adopted resource is set on the
\* item.
AudioItem_Licensed(path) ==
  IF IsNone(lic_url) THEN [path |-> path]
  ELSE [path |-> path, license_type |-> lic_type, license_key |-> lic_url[1]]

\* The ListItem of the audio path: title and path only.
AudioItem(path) == [path |-> path]

\* Variant of PlayVideoAuth: no return after the item of an audio
\* resolution.
PlayVideoAuth_NoReturn ==
  /\ pc = "auth"
  /\ LET r == GetAuthUrl(cache, stream_url[1], input.token)
     IN /\ cache' = r.cache
        /\ requests' = IF r.requested
                       THEN Append(requests, TokenUrl(stream_url[1]))
                       ELSE requests
        /\ IF r.raised
           THEN /\ Raise(r.exc)
                /\ UNCHANGED <<auth_url, resolved>>
           ELSE /\ auth_url' = Some(r.url)
                /\ resolved' = IF audio
                               THEN Append(resolved, AudioItem(stream_url[1]))
                               ELSE resolved
                /\ pc' = "window"
                /\ UNCHANGED exc
  /\ UNCHANGED <<input, json_response, chapter, resource_list, idx,
                 selection, audio, log, entries>>
  /\ UNCHANGED others

\* Lines 1514-1518: get_auth_url, and the item of an audio resolution.
PlayVideoAuth ==
  /\ pc = "auth"
  /\ LET r == GetAuthUrl(cache, stream_url[1], input.token)
     IN /\ cache' = r.cache
        /\ requests' = IF r.requested
                       THEN Append(requests, TokenUrl(stream_url[1]))
                       ELSE requests
        /\ IF r.raised
           THEN /\ Raise(r.exc)
                /\ UNCHANGED <<auth_url, resolved>>
           ELSE /\ auth_url' = Some(r.url)
                /\ IF audio
                   THEN /\ resolved' = Append(resolved, AudioItem(stream_url[1]))
                        /\ Return
                   ELSE /\ pc' = "window"
                        /\ UNCHANGED <<resolved, exc>>
  /\ UNCHANGED <<input, json_response, chapter, resource_list, idx,
                 selection, audio, log, entries>>
  /\ UNCHANGED others

\* Lines 1520-1535: start_time and end_time of the requested segment, as
\* None-or-integer each.
SegmentMarks(composition, ch, video_id) ==
  IF TryGetStr(composition, "segmentUrn") = <<>>
  THEN [start_time |-> None, end_time |-> None]
  ELSE LET segment_list == TryGetList(ch, "segmentList")
           k == SegmentIndex(segment_list, video_id)
       IN IF k = 0 THEN [start_time |-> None, end_time |-> None]
          ELSE [start_time |-> MarkSeconds(TryGetInt(segment_list[k], "markIn")),
                end_time |-> MarkSeconds(TryGetInt(segment_list[k], "markOut"))]

\* Lines 1520-1553: the time window of a segment.
PlayVideoWindow ==
  /\ pc = "window"
  /\ LET m == SegmentMarks(json_response[1], chapter[1], input.video_id)
     IN auth_url' = IF WindowApplies(m.start_time, m.end_time)
                    THEN Some(ApplyWindow(auth_url[1], m.start_time[1],
                                          m.end_time[1]))
                    ELSE auth_url
  /\ pc' = "emit"
  /\ UNCHANGED <<input, cache, json_response, chapter, resource_list, idx,
                 selection, audio, requests, log, resolved, entries, exc>>
  /\ UNCHANGED others

\* d with key added when present.
With(d, key, present, val) == IF present THEN (key :> val) @@ d ELSE d

\* The ListItem of the video path: its path, the subtitles when there are
\* any, the manifest type and, with a license URL, the license properties.
VideoItem(path, subs, manifest_type, license_url, license_type) ==
  LET i0 == [path |-> path, manifest_type |-> manifest_type]
      i1 == With(i0, "subtitles", ~IsNone(subs) /\ subs # Some(<<>>), subs)
      i2 == With(i1, "license_type", ~IsNone(license_url), license_type)
  IN With(i2, "license_key", ~IsNone(license_url), license_url[1])

\* Lines 1554-1575: the item of a video resolution.
PlayVideoEmit ==
  /\ pc = "emit"
  /\ resolved' = Append(resolved,
       VideoItem(auth_url[1],
                 IF input.subtitles THEN GetSubtitles(stream_url[1])
                 ELSE None,
                 mf_type, lic_url, lic_type))
  /\ Return
  /\ UNCHANGED <<input, cache, json_response, chapter, resource_list, idx,
                 selection, audio, auth_url, requests, log, entries>>
  /\ UNCHANGED others

\* ------------------------------------------------------------------------
\* build_episode_menu
\* Lines 927-939: the fetch of the media composition, inside try/except.
MenuFetch ==
  /\ pc = "start"
  /\ input.op = "build_episode_menu"
  /\ LET url == [to |-> "mediaComposition", bu |-> input.bu,
                 content_type |-> IF input.audio THEN "audio" ELSE "video",
                 id |-> input.video_id]
         r == OpenUrl(cache, url, TRUE, input.composition)
     IN /\ cache' = r.cache
        /\ requests' = IF r.requested THEN Append(requests, url) ELSE requests
        /\ IF r.raised \/ JsonLoadsRaises(r.text)
           THEN /\ log' = Append(log, "Cannot open media json")
                /\ Return
                /\ UNCHANGED json_response
           ELSE /\ json_response' = Some(r.text.value)
                /\ pc' = "menu"
                /\ UNCHANGED <<log, exc>>
  /\ UNCHANGED <<input, chapter, resource_list, idx, selection, audio,
                 auth_url, resolved, entries>>
  /\ UNCHANGED others

\* build_entry(json_entry, banner, is_folder)
Entry(json_entry, is_folder) == [entry |-> json_entry, is_folder |-> is_folder]

\* Variant of Entries: the entries in the reverse order of the list.
Entries_Reversed(list, is_folder) == [i \in 1..Len(list) |-> Entry(list[Len(list) + 1 - i], is_folder)]

\* for x in list: self.build_entry(x, banner=banner)
Entries(list, is_folder) == [i \in 1..Len(list) |-> Entry(list[i], is_folder)]

\* Lines 976-1009: the entries for the chapter at index k of
\* json_chapter_list, None when the segment is not found.
MenuEntries(json_chapter_list, k, video_id, chapter_id, segment_id, include_segments, segment_option, is_audio) ==
  LET json_chapter == json_chapter_list[k]
      json_segment_list == TryGetList(json_chapter, "segmentList")
  IN IF video_id = chapter_id
     THEN IF include_segments
          THEN Some(<<Entry(json_chapter, FALSE)>>
                    \o (IF is_audio /\ k = 1
                        THEN Entries(Tail(json_chapter_list), FALSE)
                        ELSE <<>>)
                    \o Entries(json_segment_list, FALSE))
          ELSE IF segment_option /\ json_segment_list # <<>>
               THEN Some(<<Entry(json_chapter, TRUE)>>)
               ELSE Some(<<Entry(json_chapter, FALSE)>>)
     ELSE LET j == MenuSegmentIndex(json_segment_list, segment_id)
          IN IF j = 0 THEN None
             ELSE Some(<<Entry(json_segment_list[j], FALSE)>>)

\* Lines 941-1009: the chapter, the segment and the entries.
MenuBuild ==
  /\ pc = "menu"
  /\ LET chapter_id == RegexId(TryGetStr(json_response[1], "chapterUrn"))
         segment_id == RegexId(TryGetStr(json_response[1], "segmentUrn"))
         json_chapter_list == TryGetList(json_response[1], "chapterList")
     IN IF IsNone(chapter_id)
        THEN /\ log' = Append(log, "No valid chapter URN")
             /\ UNCHANGED entries
        ELSE LET k == MenuChapterIndex(json_chapter_list, chapter_id[1])
             IN IF k = 0
                THEN /\ log' = Append(log, "No chapter ID found")
                     /\ UNCHANGED entries
                ELSE LET e == MenuEntries(json_chapter_list, k,
                                          input.video_id, chapter_id[1],
                                          segment_id, input.include_segments,
                                          input.segment_option, input.audio)
                     IN IF IsNone(e)
                        THEN /\ log' = Append(log, "No segment ID found")
                             /\ UNCHANGED entries
                        ELSE /\ entries' = entries \o e[1]
                             /\ UNCHANGED log
  /\ Return
  /\ UNCHANGED <<input, cache, json_response, chapter, resource_list, idx,
                 selection, audio, auth_url, requests, resolved>>
  /\ UNCHANGED others

Next ==
  \/ PlayVideoFetch
  \/ PlayVideoLocate
  \/ PlayVideoScan
  \/ PlayVideoSelected
  \/ PlayVideoAuth
  \/ PlayVideoWindow
  \/ PlayVideoEmit
  \/ MenuFetch
  \/ MenuBuild

\* ------------------------------------------------------------------------
\* The inputs: the call, the settings and what the two servers answer.
\*
\* A resource is built from a shape (protocol, quality and the types of its
\* drmList, "-" for a missing key); its url and its license URLs name the
\* chapter and the position they come from, so that no two resources of a
\* composition share a URL.
NoKey == "-"
NoDrm == <<NoKey>>

LongPath == <<"i", "vod", "master.m3u8">>
ShortPath == <<"a.m3u8">>

Url(ci, ri, path, query) ==
  [origin |-> <<ci, ri>>, path |-> path, query |-> query]

Drm(type, ci, ri, k) ==
  [type |-> type, licenseUrl |-> [chapter |-> ci, resource |-> ri, drm |-> k]]

Res(shape, ci, ri, path, query) ==
  LET r0 == [url |-> Url(ci, ri, path, query)]
      r1 == With(r0, "protocol", shape.protocol # NoKey, shape.protocol)
      r2 == With(r1, "quality", shape.quality # NoKey, shape.quality)
  IN With(r2, "drmList", shape.drm # NoDrm,
          [k \in 1..Len(shape.drm) |-> Drm(shape.drm[k], ci, ri, k)])

ResList(shapes, ci, path, query) ==
  [ri \in 1..Len(shapes) |-> Res(shapes[ri], ci, ri, path, query)]

Seg(shape, ci, k) ==
  LET s0 == [id |-> <<shape.id>>, title |-> <<ci, k>>]
      s1 == With(s0, "markIn", shape.markIn >= 0, shape.markIn)
  IN With(s1, "markOut", shape.markOut >= 0, shape.markOut)

SegList(shapes, ci) == [k \in 1..Len(shapes) |-> Seg(shapes[k], ci, k)]

Chapter(id, ci, media_type, res_shapes, seg_shapes, path, query) ==
  LET c0 == [id |-> <<id>>,
             resourceList |-> ResList(res_shapes, ci, path, query),
             segmentList |-> SegList(seg_shapes, ci)]
  IN With(c0, "mediaType", media_type # NoKey, media_type)

Composition(chapter_urn, segment_urn, chapter_list) ==
  LET c0 == [chapterList |-> chapter_list]
      c1 == With(c0, "chapterUrn", chapter_urn # <<>>, chapter_urn)
  IN With(c1, "segmentUrn", segment_urn # <<>>, segment_urn)

Ok(value) == [kind |-> "http", ok |-> TRUE, text |-> JsonText(value)]

Failures ==
  {[kind |-> "error"],
   [kind |-> "http", ok |-> FALSE],
   [kind |-> "http", ok |-> TRUE, text |-> EmptyText],
   [kind |-> "http", ok |-> TRUE, text |-> GarbageText]}

Obj(d) == [t |-> "obj", d |-> d]

AuthParamsText == <<<<"hdnts", Str("exp")>>>>

TokenOk == Ok(Obj([token |-> Obj([authparams |-> AuthParamsText])]))

TokenAnswers ==
  Failures \cup
  {TokenOk,
   Ok([t |-> "null"]),
   Ok([t |-> "list"]),
   Ok(Obj([error |-> "x"])),
   Ok(Obj([token |-> [t |-> "null"]])),
   Ok(Obj([token |-> Obj([ttl |-> "x"])])),
   Ok(Obj([token |-> Obj([authparams |-> <<>>])]))}

HlsHd == [protocol |-> "HLS", quality |-> "HD", drm |-> NoDrm]

SegS == [id |-> "s", markIn |-> 5000, markOut |-> 12000]
SegT == [id |-> "t", markIn |-> 12000, markOut |-> 20000]

Call(op, video_id, is_audio, include_segments, segment_option, prefer_hd, subtitles, composition, token) ==
  [op |-> op, video_id |-> video_id, audio |-> is_audio, bu |-> "srf",
   include_segments |-> include_segments,
   segment_option |-> segment_option, prefer_hd |-> prefer_hd,
   subtitles |-> subtitles, composition |-> composition, token |-> token]

Ops == {"play_video", "build_episode_menu"}

\* Family 1, the location of the chapter and the segment: chapters a and b
\* in every order, each with the segments s and t.
ChapterList1(ids) ==
  [ci \in 1..Len(ids) |->
     Chapter(ids[ci], ci, NoKey, <<HlsHd>>, <<SegS, SegT>>, LongPath, <<>>)]

Compositions1 ==
  {Composition(cu, su, ChapterList1(ids)) :
     cu \in {<<>>, <<"x">>, Urn("srf", "video", <<"a">>),
             Urn("srf", "video", <<"b">>)},
     su \in {<<>>, Urn("srf", "video", <<"s">>)},
     ids \in SeqUpTo({"a", "b"}, MaxChapters)}

VideoIds1 ==
  {<<"a">>, <<"s">>, <<"x">>, Urn("srf", "video", <<"a">>),
   Urn("srf", "video", <<"s">>)}

Inputs1 ==
  \/ \E v \in VideoIds1, au \in BOOLEAN, c \in Compositions1 :
       input = Call("play_video", v, au, TRUE, FALSE, TRUE, FALSE, Ok(c),
                    TokenOk)
  \/ \E v \in VideoIds1, au \in BOOLEAN, inc \in BOOLEAN, opt \in BOOLEAN,
        c \in Compositions1 :
       input = Call("build_episode_menu", v, au, inc, opt, TRUE, FALSE,
                    Ok(c), TokenOk)

\* Family 2, the selection of the resource: one chapter a and every list
\* of resource shapes, for a video call and for an audio call.
VideoShapes2 ==
  [protocol : {"HLS", "dash"},
   quality : {"SD", "HD", "LQ"},
   drm : {NoDrm, <<"PLAYREADY">>, <<"WIDEVINE", "PLAYREADY">>}]
  \cup {[protocol |-> NoKey, quality |-> "HD", drm |-> NoDrm],
        [protocol |-> "HLS", quality |-> "SD", drm |-> <<>>],
        [protocol |-> "HTTPS", quality |-> "HD", drm |-> NoDrm],
        [protocol |-> "DASH", quality |-> NoKey,
         drm |-> <<"WIDEVINE", "WIDEVINE">>]}

AudioShapes2 ==
  [protocol : {"https", "HTTP-MP3-STREAM"},
   quality : {"SD", "HQ"},
   drm : {NoDrm}]
  \cup {HlsHd}

Composition2(shapes) ==
  Composition(<<>>, <<>>,
              <<Chapter("a", 1, NoKey, shapes, <<>>, LongPath, <<>>)>>)

Inputs2 ==
  \/ \E hd \in BOOLEAN, shapes \in SeqUpTo(VideoShapes2, MaxRes) :
       input = Call("play_video", <<"a">>, FALSE, TRUE, FALSE, hd, FALSE,
                    Ok(Composition2(shapes)), TokenOk)
  \/ \E hd \in BOOLEAN, shapes \in SeqUpTo(AudioShapes2, MaxRes) :
       input = Call("play_video", <<"a">>, TRUE, TRUE, FALSE, hd, FALSE,
                    Ok(Composition2(shapes)), TokenOk)

\* Family 3, the time window: one chapter a with every list of segments;
\* a mark of -1 stands for a missing key.
SegShapes3 ==
  [id : {"s"}, markIn : {-1, 0, 500, 5000}, markOut : {-1, 0, 12000}]
  \cup {SegT}

Queries3 ==
  {<<>>,
   <<<<"start", Str("1")>>, <<"x", Str("y")>>, <<"end", Str("9")>>>>,
   <<<<"caption", Str("")>>, <<"end", Str("9")>>, <<"end", Str("8")>>>>}

Inputs3 ==
  \E v \in {<<"a">>, <<"s">>}, su \in {<<>>, Urn("srf", "video", <<"s">>)},
     segs \in SeqUpTo(SegShapes3, MaxSegs), q \in Queries3 :
    input = Call("play_video", v, FALSE, TRUE, FALSE, TRUE, FALSE,
                 Ok(Composition(Urn("srf", "video", <<"a">>), su,
                                <<Chapter("a", 1, NoKey, <<HlsHd>>, segs,
                                          LongPath, q)>>)),
                 TokenOk)

\* Family 4, the failures of the two servers and the shapes of the stream
\* URL: one chapter a with at most one resource and the segment s.
Queries4 ==
  {<<>>,
   <<<<"caption", Str("c.vtt")>>, <<"webvttbaseurl", Str("w")>>>>}

Compositions4 ==
  {Composition(Urn("srf", "video", <<"a">>), Urn("srf", "video", <<"s">>),
               <<Chapter("a", 1, mt, <<[HlsHd EXCEPT !.protocol = p]>>,
                         <<SegS>>, path, q)>>) :
     mt \in {NoKey, "AUDIO"}, p \in {"HLS", "HTTP"},
     path \in {LongPath, ShortPath}, q \in Queries4}
  \cup
  {Composition(Urn("srf", "video", <<"a">>), <<>>,
               <<Chapter("a", 1, NoKey, <<>>, <<SegS>>, LongPath, <<>>)>>)}

Inputs4 ==
  \/ \E op \in Ops, au \in BOOLEAN, c \in Failures :
       input = Call(op, <<"a">>, au, TRUE, FALSE, TRUE, FALSE, c, TokenOk)
  \/ \E v \in {<<"a">>, <<"s">>}, au \in BOOLEAN, sub \in BOOLEAN,
        c \in Compositions4, tok \in TokenAnswers :
       input = Call("play_video", v, au, TRUE, FALSE, TRUE, sub, Ok(c), tok)

\* Family 5, the audio resolution of a resource with or without a license:
\* one chapter a with the segment s, named by segmentUrn, and a stream URL
\* that names subtitles.
MediaTypes5 == {NoKey, "AUDIO", "audio", "VIDEO"}

HttpsShapes5 ==
  {[protocol |-> "HTTPS", quality |-> "HD", drm |-> d] :
     d \in {NoDrm, <<"WIDEVINE">>}}

Inputs5 ==
  \E v \in {<<"a">>, <<"s">>}, au \in BOOLEAN, sub \in BOOLEAN,
     mt \in MediaTypes5, shape \in HttpsShapes5, q \in Queries4 :
    input = Call("play_video", v, au, TRUE, FALSE, TRUE, sub,
                 Ok(Composition(Urn("srf", "video", <<"a">>),
                                Urn("srf", "video", <<"s">>),
                                <<Chapter("a", 1, mt, <<shape>>, <<SegS>>,
                                          LongPath, q)>>)),
                 TokenOk)

\* The state before the handler runs, for every input of the five
\* families.
Init ==
  /\ Inputs1 \/ Inputs2 \/ Inputs3 \/ Inputs4 \/ Inputs5
  /\ pc = "start"
  /\ cache = {}
  /\ json_response = None
  /\ chapter = None
  /\ resource_list = <<>>
  /\ idx = 0
  /\ current_weight = -1
  /\ stream_url = None
  /\ lic_url = None
  /\ mf_type = Unbound
  /\ lic_type = Unbound
  /\ audio = input.audio
  /\ auth_url = None
  /\ requests = <<>>
  /\ log = <<>>
  /\ resolved = <<>>
  /\ entries = <<>>
  /\ exc = None
  /\ file = [state |-> "missing"]
  /\ calls = <<>>
  /\ history = <<>>
  /\ page = None
  /\ ret = None

Spec == Init /\ [][Next]_vars

\* ------------------------------------------------------------------------
\* Vocabulary of the properties.
IsPlayVideo == input.op = "play_video"
IsMenu == input.op = "build_episode_menu"
Terminated == pc \in {"returned", "raised"}

\* The media composition the server hands out, when it hands one out.
Fetched == ~IsNone(json_response)
ChapterList == json_response[1].chapterList

\* k is the position of the first chapter of list whose id is id.
IsFirstWithId(list, k, id) ==
  /\ k \in 1..Len(list)
  /\ list[k].id = id
  /\ \A j \in 1..(k - 1) : list[j].id # id

HasId(list, id) == \E k \in 1..Len(list) : list[k].id = id

\* The chapter id of a build_episode_menu request: the id part of the
\* composition's chapterUrn.
MenuChapterId == RegexId(TryGetStr(json_response[1], "chapterUrn"))

\* C1: Chapter location, found case.  Whenever some chapter of chapterList
\* has the requested chapter id, the first such chapter in list order is the
\* one used, at whatever position it stands: play_video scans its
\* resourceList, build_episode_menu builds its entries from it (the chapter
\* itself first for a chapter request, one of its segments for a segment
\* request).
C1_ChapterFound ==
  /\ (IsPlayVideo /\ Fetched /\ pc \notin {"start", "fetched"}
      /\ HasId(ChapterList, input.video_id))
     => \E k \in 1..Len(ChapterList) :
          /\ IsFirstWithId(ChapterList, k, input.video_id)
          /\ chapter = Some(ChapterList[k])
          /\ resource_list = ChapterList[k].resourceList
  /\ (IsMenu /\ Fetched /\ pc = "returned" /\ ~IsNone(MenuChapterId)
      /\ HasId(ChapterList, MenuChapterId[1]))
     => \E k \in 1..Len(ChapterList) :
          /\ IsFirstWithId(ChapterList, k, MenuChapterId[1])
          /\ IF input.video_id = MenuChapterId[1]
             THEN /\ entries # <<>>
                  /\ entries[1].entry = ChapterList[k]
             ELSE \A i \in 1..Len(entries) :
                    \E j \in 1..Len(ChapterList[k].segmentList) :
                      entries[i].entry = ChapterList[k].segmentList[j]

\* A play_video call has scanned the resources of a chapter that stands
\* second, behind a chapter with another id, and resolved it.
C1_Witness ==
  /\ IsPlayVideo /\ pc = "returned" /\ Fetched
  /\ Len(ChapterList) >= 2
  /\ ChapterList[1].id # input.video_id
  /\ ChapterList[2].id = input.video_id
  /\ chapter = Some(ChapterList[2])
  /\ Len(resolved) = 1

TokenRequested == \E i \in 1..Len(requests) : requests[i].to = "token"

\* C2, as claimed: Chapter location, absent case.  When no chapter of
\* chapterList has the requested chapter id, the resolution ends there: no
\* chapter is used in its place, no resource is selected, nothing is
\* rendered and nothing is handed to the resolve callback.
C2_AbsentIsTerminal ==
  /\ (IsPlayVideo /\ Fetched /\ ~HasId(ChapterList, input.video_id))
     => /\ IsNone(chapter)
        /\ IsNone(stream_url)
        /\ resolved = <<>>
        /\ pc \in {"start", "fetched", "returned"}
  /\ (IsMenu /\ Fetched
      /\ (IsNone(MenuChapterId) \/ ~HasId(ChapterList, MenuChapterId[1])))
     => /\ entries = <<>>
        /\ pc \in {"menu", "returned"}

\* C2, amended: when no chapter of chapterList has the requested chapter id,
\* build_episode_menu ends with a logged message and no entry; play_video
\* ends with a logged message, no selection, no token request and nothing
\* resolved when chapterList is empty, and otherwise goes on with the first
\* chapter of chapterList in place of the missing one.
C2_AbsentMenuEndsPlayFallsBack ==
  /\ (IsMenu /\ Fetched
      /\ (IsNone(MenuChapterId) \/ ~HasId(ChapterList, MenuChapterId[1])))
     => /\ entries = <<>>
        /\ resolved = <<>>
        /\ pc \in {"menu", "returned"}
        /\ pc = "returned" => (IsNone(exc) /\ Len(log) = 1)
  /\ (IsPlayVideo /\ Fetched /\ ChapterList = <<>>)
     => /\ pc = "returned"
        /\ IsNone(exc)
        /\ log = <<"no stream URL found (chapterList empty)">>
        /\ IsNone(chapter) /\ IsNone(stream_url)
        /\ resolved = <<>>
        /\ ~TokenRequested
  /\ (IsPlayVideo /\ Fetched /\ ChapterList # <<>>
      /\ ~HasId(ChapterList, input.video_id)
      /\ pc \notin {"start", "fetched"})
     => /\ chapter = Some(ChapterList[1])
        /\ resource_list = ChapterList[1].resourceList

\* A play_video call for an id that no chapter has resolved a stream of the
\* first of two chapters.
C2_Witness ==
  /\ IsPlayVideo /\ pc = "returned" /\ Fetched
  /\ Len(ChapterList) = 2
  /\ ~HasId(ChapterList, input.video_id)
  /\ chapter = Some(ChapterList[1])
  /\ Len(resolved) = 1

\* ------------------------------------------------------------------------
\* The selection as the specification words it.
ClaimWhitelist(is_audio) ==
  IF is_audio THEN {"HTTP", "HTTPS", "HTTP-MP3-STREAM"} ELSE {"HLS", "DASH"}

ClaimWeight(res, prefer_hd) ==
  IF "quality" \notin DOMAIN res THEN 0
  ELSE IF prefer_hd
       THEN CASE res.quality = "SD" -> 1
              [] res.quality \in {"HD", "HQ"} -> 2
              [] OTHER -> 0
       ELSE CASE res.quality \in {"HD", "HQ"} -> 1
              [] res.quality = "SD" -> 2
              [] OTHER -> 0

InWhitelist(res, is_audio) ==
  "protocol" \in DOMAIN res /\ Upper(res.protocol) \in ClaimWhitelist(is_audio)

HasDrmList(res) == "drmList" \in DOMAIN res

HasWidevine(res) ==
  HasDrmList(res)
  /\ \E k \in 1..Len(res.drmList) : res.drmList[k].type = "WIDEVINE"

Adoptable(res, is_audio) ==
  InWhitelist(res, is_audio) /\ (~HasDrmList(res) \/ HasWidevine(res))

\* The audio flag in effect once the chapter is located: the caller's, or
\* set by a chapter of media type AUDIO.
ClaimAudio ==
  \/ input.audio
  \/ /\ ~IsNone(chapter)
     /\ "mediaType" \in DOMAIN chapter[1]
     /\ Upper(chapter[1].mediaType) = "AUDIO"

\* The loop stands before resource_list[idx].
Scanning == pc = "scan" /\ idx <= Len(resource_list)
Cur == resource_list[idx]
CurWeight == ClaimWeight(Cur, input.prefer_hd)

\* The resources the loop has been through.
Scanned == IF IsPlayVideo /\ idx >= 1 THEN 1..(idx - 1) ELSE {}
ScanComplete == IsPlayVideo /\ idx > Len(resource_list) /\ idx >= 1
AdoptableScanned == {i \in Scanned : Adoptable(resource_list[i], ClaimAudio)}
WeightAt(i) == ClaimWeight(resource_list[i], input.prefer_hd)

\* i is the latest of the adoptable resources of maximal weight among
\* those scanned.
IsBest(i) ==
  /\ i \in AdoptableScanned
  /\ \A j \in AdoptableScanned :
       WeightAt(j) < WeightAt(i) \/ (WeightAt(j) = WeightAt(i) /\ j <= i)

\* C3: Resource selection result.  After any number of resources scanned,
\* and so at the end of the scan, the adopted resource is the latest in
\* list order of the adoptable resources of maximal quality weight, and
\* current_weight is that weight; nothing is adopted when no resource is
\* adoptable.
C3_SelectsLatestOfMaxWeight ==
  (IsPlayVideo /\ idx >= 1)
  => IF AdoptableScanned = {}
     THEN IsNone(stream_url) /\ current_weight = -1
     ELSE \E i \in AdoptableScanned :
            /\ IsBest(i)
            /\ stream_url = Some(resource_list[i].url)
            /\ current_weight = WeightAt(i)

\* The scan of two adoptable resources is over; the first weighs more and
\* is the one adopted.
C3_Witness ==
  /\ ScanComplete /\ pc = "auth"
  /\ Len(resource_list) = 2
  /\ AdoptableScanned = {1, 2}
  /\ WeightAt(1) > WeightAt(2)
  /\ stream_url = Some(resource_list[1].url)

\* The resource the stream URL was taken from.
IsAdopted(i) ==
  /\ i \in 1..Len(resource_list)
  /\ stream_url = Some(resource_list[i].url)

\* C4, as claimed: Protocol whitelist.  In every successful resolution the
\* protocol of the adopted resource is in {HTTP, HTTPS, HTTP-MP3-STREAM}
\* when the caller's audio preference is true and in {HLS, DASH} when it is
\* false.
C4_WhitelistOfCallerFlag ==
  (IsPlayVideo /\ resolved # <<>>)
  => \E i \in 1..Len(resource_list) :
       IsAdopted(i) /\ InWhitelist(resource_list[i], input.audio)

\* C4, amended: the whitelist is that of the audio flag in effect, which is
\* the caller's audio preference or true for a chapter of media type AUDIO.
\* In every successful resolution the protocol of the adopted resource is in
\* that whitelist, and the scan of a resource whose protocol is outside of
\* it, or missing, changes nothing of the selection.
C4_WhitelistOfEffectiveFlag ==
  /\ [](( IsPlayVideo /\ resolved # <<>>)
        => \E i \in 1..Len(resource_list) :
             IsAdopted(i) /\ InWhitelist(resource_list[i], ClaimAudio))
  /\ [][(Scanning /\ ~InWhitelist(Cur, ClaimAudio))
        => UNCHANGED selection]_vars

\* A call with audio=False has resolved the HTTP resource of a chapter of
\* media type AUDIO.
C4_Witness ==
  /\ IsPlayVideo /\ ~input.audio /\ ClaimAudio
  /\ Len(resolved) = 1
  /\ \E i \in 1..Len(resource_list) :
       IsAdopted(i) /\ Upper(resource_list[i].protocol) = "HTTP"

\* C5: DRM eligibility.  The scan of a resource that carries a drmList
\* without a WIDEVINE entry changes neither the stream URL, the license URL
\* nor the current weight, whatever its weight.  The scan of a resource
\* with a WIDEVINE entry, once it is past the protocol and weight checks,
\* adopts it: the current weight becomes its weight, the stream URL its url
\* and the license URL the licenseUrl of a WIDEVINE entry of its drmList.
C5_DrmEligibility ==
  [][Scanning =>
       /\ (HasDrmList(Cur) /\ ~HasWidevine(Cur))
          => UNCHANGED <<stream_url, lic_url, current_weight>>
       /\ (HasWidevine(Cur) /\ InWhitelist(Cur, ClaimAudio)
           /\ CurWeight >= current_weight)
          => /\ current_weight' = CurWeight
             /\ stream_url' = Some(Cur.url)
             /\ \E k \in 1..Len(Cur.drmList) :
                  /\ Cur.drmList[k].type = "WIDEVINE"
                  /\ lic_url' = Some(Cur.drmList[k].licenseUrl)]_vars

\* The loop went through a resource with only a PLAYREADY entry, which it
\* left aside, and then adopted a resource with a WIDEVINE entry.
C5_Witness ==
  /\ IsPlayVideo /\ pc = "scan" /\ idx = 3
  /\ InWhitelist(resource_list[1], ClaimAudio)
  /\ HasDrmList(resource_list[1]) /\ ~HasWidevine(resource_list[1])
  /\ HasWidevine(resource_list[2])
  /\ stream_url = Some(resource_list[2].url)
  /\ lic_url = Some(resource_list[2].drmList[1].licenseUrl)

\* C6: DRM adds no priority.  A resource of strictly lower weight than the
\* current one changes nothing of the selection, be it a WIDEVINE resource
\* met after a resource without DRM was adopted or a resource without DRM
\* met after a WIDEVINE resource was adopted.
C6_DrmAddsNoPriority ==
  [][(Scanning /\ ~IsNone(stream_url) /\ CurWeight < current_weight)
     => /\ (HasWidevine(Cur) /\ IsNone(lic_url)) => UNCHANGED selection
        /\ (~HasDrmList(Cur) /\ ~IsNone(lic_url)) => UNCHANGED selection]_vars

\* The scan is over: the first resource, without DRM, weighs more than the
\* second, a WIDEVINE one, and stays the one adopted.
C6_Witness ==
  /\ ScanComplete /\ pc = "auth"
  /\ Len(resource_list) = 2
  /\ Adoptable(resource_list[1], ClaimAudio) /\ ~HasDrmList(resource_list[1])
  /\ InWhitelist(resource_list[2], ClaimAudio) /\ HasWidevine(resource_list[2])
  /\ WeightAt(2) < WeightAt(1)
  /\ stream_url = Some(resource_list[1].url)
  /\ IsNone(lic_url)

\* C7: NoResource.  When the chapter play_video uses has no adoptable
\* resource (empty resourceList, no protocol of the whitelist, or a drmList
\* without WIDEVINE on every eligible resource), play_video returns after
\* logging that no stream URL was found: it raises nothing, requests no
\* token and hands nothing to the resolve callback.
C7_NoResource ==
  (IsPlayVideo /\ ~IsNone(chapter)
   /\ \A i \in 1..Len(TryGetList(chapter[1], "resourceList")) :
        ~Adoptable(chapter[1].resourceList[i], ClaimAudio))
  => /\ pc \in {"scan", "returned"}
     /\ IsNone(exc)
     /\ resolved = <<>>
     /\ ~TokenRequested
     /\ pc = "returned"
        => /\ Len(log) = 1
           /\ log[1] \in {"no stream URL found",
                          "no stream URL found (resourceList empty)"}

\* play_video has returned after the scan of two resources, the first with
\* a protocol outside the whitelist, the second with a drmList without
\* WIDEVINE.
C7_Witness ==
  /\ IsPlayVideo /\ pc = "returned" /\ ScanComplete
  /\ Len(resource_list) = 2
  /\ ~InWhitelist(resource_list[1], ClaimAudio)
  /\ InWhitelist(resource_list[2], ClaimAudio)
  /\ HasDrmList(resource_list[2]) /\ ~HasWidevine(resource_list[2])
  /\ log = <<"no stream URL found">>

\* ------------------------------------------------------------------------
\* The token service did not answer with {token: {authparams: ...}}: it was
\* unreachable, answered with a status that is not OK, or with a body that
\* is not that JSON.
ExpectedTokenJson(value) ==
  /\ value.t = "obj"
  /\ "token" \in DOMAIN value.d
  /\ value.d.token.t = "obj"
  /\ "authparams" \in DOMAIN value.d.token.d

TokenFailed ==
  \/ input.token.kind = "error"
  \/ ~input.token.ok
  \/ input.token.text.kind # "json"
  \/ ~ExpectedTokenJson(input.token.text.value)

\* C8: Authorization failure is non-fatal.  Whenever the token request
\* fails, get_auth_url raises nothing and returns its input url unchanged,
\* and play_video hands an item to the resolve callback.
C8_AuthFailureNonFatal ==
  (IsPlayVideo /\ TokenRequested /\ TokenFailed)
  => /\ pc # "raised"
     /\ IsNone(exc)
     /\ auth_url # None
     /\ pc = "window" => auth_url = stream_url
     /\ pc = "returned" => Len(resolved) = 1

\* The fetch of the media composition failed: a response that is not OK, on
\* which open_url returns the empty string, or a body that is not JSON.
CompositionFailed ==
  /\ input.composition.kind = "http"
  /\ \/ ~input.composition.ok
     \/ input.composition.text.kind # "json"

\* C9: Composition fetch failure is absorbed.  Whenever the fetch of the
\* media composition fails, build_episode_menu and play_video end with
\* nothing rendered and nothing resolved, and no exception leaves them.
C9_FetchFailureAbsorbed ==
  CompositionFailed
  => /\ pc \in {"start", "returned"}
     /\ IsNone(exc)
     /\ entries = <<>>
     /\ resolved = <<>>

\* The segment a play_video request denotes: the first segment of the
\* chapter in use whose id is the requested id, for a composition that
\* carries a segmentUrn.
IsRequestedSegment(k) ==
  /\ "segmentUrn" \in DOMAIN json_response[1]
  /\ IsFirstWithId(TryGetList(chapter[1], "segmentList"), k, input.video_id)

HasParam(url, name, value) ==
  \E i \in 1..Len(url.query) : url.query[i] = <<name, value>>

\* C10: Time window applicability.  For a segment request whose segment has
\* markIn and markOut both present and different from 0, the URL of the
\* emitted item carries the window: start = markIn div 1000 and
\* end = markOut div 1000.  A markIn between 1 and 999 is such a case.
C10_WindowApplied ==
  (IsPlayVideo /\ pc = "emit")
  => \A k \in 1..Len(TryGetList(chapter[1], "segmentList")) :
       LET seg == chapter[1].segmentList[k]
       IN (IsRequestedSegment(k)
           /\ "markIn" \in DOMAIN seg /\ seg.markIn # 0
           /\ "markOut" \in DOMAIN seg /\ seg.markOut # 0)
          => /\ HasParam(auth_url[1], "start", Num(seg.markIn \div 1000))
             /\ HasParam(auth_url[1], "end", Num(seg.markOut \div 1000))

\* ------------------------------------------------------------------------
\* The URL get_auth_url handed back, which the window is applied to.
AuthorizedUrl == GetAuthUrl(cache, stream_url[1], input.token).url

\* The parameters of a query other than start and end, in order.
OtherParams(query) == SelectSeq(query, LAMBDA p : p[1] \notin {"start", "end"})

CountParam(query, name) ==
  Cardinality({i \in 1..Len(query) : query[i][1] = name})

\* The window of segment seg is one the code applies: both marks are there
\* and of one second at least.
HasWindow(seg) ==
  /\ "markIn" \in DOMAIN seg /\ seg.markIn >= 1000
  /\ "markOut" \in DOMAIN seg /\ seg.markOut >= 1000

\* The segments of the chapter in use.
SegmentList == TryGetList(chapter[1], "segmentList")

\* C11: Time window rewrite result.  Whenever the window is applied, the
\* query of the result has exactly one start, equal to markIn div 1000, and
\* exactly one end, equal to markOut div 1000; every other parameter of the
\* authorized URL is kept with its value, in the same order; origin and path
\* are those of the authorized URL.
C11_WindowRewriteResult ==
  (IsPlayVideo /\ pc = "emit")
  => \A k \in 1..Len(SegmentList) :
       (IsRequestedSegment(k) /\ HasWindow(SegmentList[k]))
       => /\ CountParam(auth_url[1].query, "start") = 1
          /\ CountParam(auth_url[1].query, "end") = 1
          /\ HasParam(auth_url[1], "start",
                      Num(SegmentList[k].markIn \div 1000))
          /\ HasParam(auth_url[1], "end",
                      Num(SegmentList[k].markOut \div 1000))
          /\ OtherParams(auth_url[1].query) = OtherParams(AuthorizedUrl.query)
          /\ auth_url[1].origin = AuthorizedUrl.origin
          /\ auth_url[1].path = AuthorizedUrl.path

LocalId(identifier) ==
  IF StartsWithUrn(identifier) /\ Len(identifier) >= 4
  THEN SubSeq(identifier, 4, Len(identifier))
  ELSE identifier

\* What play_video called with the raw id does on the composition at hand:
\* the chapter it uses and the URL it emits for a video.
RawChapter == ChapterList[ChapterIndex(ChapterList, LocalId(input.video_id))]

RawEmittedUrl ==
  LET m == SegmentMarks(json_response[1], RawChapter, LocalId(input.video_id))
  IN IF WindowApplies(m.start_time, m.end_time)
     THEN ApplyWindow(AuthorizedUrl, m.start_time[1], m.end_time[1])
     ELSE AuthorizedUrl

\* C13: Identifier forms are equivalent.  play_video called with the URN
\* urn:<bu>:<mediaType>:X uses the chapter, and emits the stream URL with
\* the time window, that play_video called with the raw id X uses and emits
\* on the same composition.
C13_UrnEquivalentToRawId ==
  (IsPlayVideo /\ StartsWithUrn(input.video_id) /\ Fetched
   /\ ChapterList # <<>>)
  => /\ pc \notin {"start", "fetched"} => chapter = Some(RawChapter)
     /\ pc = "emit" => auth_url[1] = RawEmittedUrl

\* ------------------------------------------------------------------------
\* The chapter build_episode_menu locates: the first one with the id of
\* chapterUrn.
MenuLocated(k) ==
  /\ ~IsNone(MenuChapterId)
  /\ IsFirstWithId(ChapterList, k, MenuChapterId[1])

\* The id part of the composition's segmentUrn, None without one.
MenuSegmentId == RegexId(TryGetStr(json_response[1], "segmentUrn"))

\* The segment of a play_video request is at j: the URL emitted carries its
\* window, when it has one, and is the authorized URL as it is otherwise.
PlaysSegment(j) ==
  IF HasWindow(SegmentList[j])
  THEN /\ HasParam(auth_url[1], "start", Num(SegmentList[j].markIn \div 1000))
       /\ HasParam(auth_url[1], "end", Num(SegmentList[j].markOut \div 1000))
  ELSE auth_url[1] = AuthorizedUrl

ClaimSegmentId ==
  IF ~IsNone(MenuSegmentId) THEN MenuSegmentId[1] ELSE input.video_id

NoValidChapterUrn ==
  \/ "chapterUrn" \notin DOMAIN json_response[1]
  \/ ~StartsWithUrn(json_response[1].chapterUrn)
  \/ Len(json_response[1].chapterUrn) < 4

\* C16, as claimed: Chapter id without chapterUrn.  When the composition
\* carries no chapterUrn, or one that is no URN, build_episode_menu takes the
\* requested id for the chapter id: with a chapter of that id in chapterList
\* it builds its entries from the first such chapter.
C16_RequestedIdIsChapterId ==
  (IsMenu /\ pc = "returned" /\ Fetched /\ NoValidChapterUrn)
  => \A k \in 1..Len(ChapterList) :
       IsFirstWithId(ChapterList, k, input.video_id)
       => /\ entries # <<>>
          /\ entries[1].entry = ChapterList[k]

\* C16, amended: when the composition carries no chapterUrn, or one that is
\* no URN, build_episode_menu logs that there is no valid chapter URN and
\* returns with no entry, whatever the chapters of chapterList.
C16_NoChapterUrnEndsMenu ==
  (IsMenu /\ pc = "returned" /\ Fetched /\ NoValidChapterUrn)
  => /\ entries = <<>>
     /\ log = <<"No valid chapter URN">>
     /\ IsNone(exc)

\* build_episode_menu has returned with no entry on a composition without
\* chapterUrn whose chapterList has a chapter with the requested id.
C16_Witness ==
  /\ IsMenu /\ pc = "returned" /\ Fetched
  /\ "chapterUrn" \notin DOMAIN json_response[1]
  /\ HasId(ChapterList, input.video_id)
  /\ entries = <<>>
  /\ log = <<"No valid chapter URN">>

\* ------------------------------------------------------------------------
\* C17: Token request ordering.  Within one play_video invocation the token
\* endpoint is requested only after the composition was fetched, a chapter
\* located and a resource adopted, the request for the composition being the
\* one before it; on every failure path (empty chapterList, empty
\* resourceList, no adoptable resource) the token endpoint is not requested.
C17_TokenAfterAdoption ==
  IsPlayVideo
  => /\ TokenRequested
        => /\ Fetched /\ ~IsNone(chapter) /\ ScanComplete
           /\ \E i \in 1..Len(resource_list) :
                IsAdopted(i) /\ Adoptable(resource_list[i], ClaimAudio)
           /\ Len(requests) = 2
           /\ requests[1].to = "byUrn"
           /\ requests[2].to = "token"
     /\ (Fetched /\ ChapterList = <<>>) => ~TokenRequested
     /\ (~IsNone(chapter) /\ TryGetList(chapter[1], "resourceList") = <<>>)
        => ~TokenRequested
     /\ (~IsNone(chapter)
         /\ \A i \in 1..Len(TryGetList(chapter[1], "resourceList")) :
              ~Adoptable(chapter[1].resourceList[i], ClaimAudio))
        => ~TokenRequested
     /\ ~Fetched => requests \in {<<>>, <<[to |-> "byUrn", urn |-> PlayVideoUrn]>>}

\* The token was requested, after the composition, for the second resource
\* of the chapter, the first one not being adoptable.
C17_Witness ==
  /\ IsPlayVideo /\ TokenRequested
  /\ Len(requests) = 2 /\ requests[2].to = "token"
  /\ Len(resource_list) = 2
  /\ ~Adoptable(resource_list[1], ClaimAudio)
  /\ IsAdopted(2)

\* ------------------------------------------------------------------------
\* C18: Exactly one outcome per invocation.  In every execution of
\* play_video the resolve callback is invoked at most once; it is invoked
\* only when the selector adopted a resource, and then play_video returns
\* without an exception; on every failure path (a logged return without a
\* stream URL, an exception) it is not invoked at all.
C18_AtMostOneOutcome ==
  /\ [](IsPlayVideo
        => /\ Len(resolved) <= 1
           /\ resolved # <<>>
              => /\ pc = "returned" /\ IsNone(exc)
                 /\ \E i \in 1..Len(resource_list) :
                      IsAdopted(i) /\ Adoptable(resource_list[i], ClaimAudio)
           /\ (pc = "raised" \/ (pc = "returned" /\ log # <<>>))
              => resolved = <<>>)
  /\ [][(IsPlayVideo /\ resolved' # resolved)
        => /\ resolved = <<>>
           /\ Len(resolved') = 1
           /\ pc' = "returned"]_vars

\* play_video has returned after handing over one item, that of a resource
\* with a license.
C18_Witness ==
  /\ IsPlayVideo /\ pc = "returned"
  /\ Len(resolved) = 1
  /\ "license_key" \in DOMAIN resolved[1]
  /\ log = <<>>

\* ------------------------------------------------------------------------
\* The manifest type tag of a protocol: hls for HLS, mpd for DASH, empty for
\* the audio protocols.
ClaimTag(res) ==
  CASE Upper(res.protocol) = "HLS" -> "hls"
    [] Upper(res.protocol) = "DASH" -> "mpd"
    [] OTHER -> ""

\* C19: Manifest type follows the adopted resource.  At every point of the
\* scan with a resource adopted, mf_type is the tag of that resource: hls
\* for HLS, mpd for DASH and empty for an audio protocol; the manifest_type
\* of the item of a resolution that is not an audio one is that tag, never
\* the tag of a resource that was displaced or skipped.
C19_ManifestTypeOfAdopted ==
  IsPlayVideo
  => /\ (idx >= 1 /\ ~IsNone(stream_url))
        => \E i \in 1..Len(resource_list) :
             IsAdopted(i) /\ mf_type = ClaimTag(resource_list[i])
     /\ (resolved # <<>> /\ ~ClaimAudio)
        => \E i \in 1..Len(resource_list) :
             /\ IsAdopted(i)
             /\ Upper(resource_list[i].protocol) \in {"HLS", "DASH"}
             /\ resolved[1].manifest_type = ClaimTag(resource_list[i])
     /\ (resolved # <<>> /\ ClaimAudio) => mf_type = ""

\* A DASH resource with a license displaced an HLS resource of the same
\* weight, and the item handed over has the manifest type mpd.
C19_Witness ==
  /\ IsPlayVideo /\ Len(resolved) = 1
  /\ Len(resource_list) = 2
  /\ Adoptable(resource_list[1], ClaimAudio)
  /\ Upper(resource_list[1].protocol) = "HLS"
  /\ Adoptable(resource_list[2], ClaimAudio)
  /\ Upper(resource_list[2].protocol) = "DASH"
  /\ HasWidevine(resource_list[2])
  /\ IsAdopted(2)
  /\ "manifest_type" \in DOMAIN resolved[1]
  /\ resolved[1].manifest_type = "mpd"

\* ------------------------------------------------------------------------
\* The start and end parameters of a query, in order.
WindowParams(query) == SelectSeq(query, LAMBDA p : p[1] \in {"start", "end"})

\* C20: Audio emission omits license and subtitles.  Whenever the resolution
\* is an audio one, with the empty manifest type, the item handed to the
\* resolve callback has no license property and no subtitles, and its URL
\* has no time window beyond the start and end the stream URL came with,
\* even when the adopted resource has a WIDEVINE entry or the composition
\* names a segment.
C20_AudioItemIsBare ==
  (IsPlayVideo /\ resolved # <<>> /\ (ClaimAudio \/ mf_type = ""))
  => /\ ClaimAudio /\ mf_type = ""
     /\ "license_type" \notin DOMAIN resolved[1]
     /\ "license_key" \notin DOMAIN resolved[1]
     /\ "subtitles" \notin DOMAIN resolved[1]
     /\ WindowParams(resolved[1].path.query)
          = WindowParams(stream_url[1].query)

\* An audio resolution of a resource with a WIDEVINE entry, for the segment
\* the composition names, with the subtitles switched on and a stream URL
\* that names some: the item has its path and nothing else.
C20_Witness ==
  /\ IsPlayVideo /\ pc = "returned" /\ Len(resolved) = 1
  /\ ClaimAudio
  /\ ~IsNone(lic_url)
  /\ IsRequestedSegment(1) /\ HasWindow(SegmentList[1])
  /\ input.subtitles /\ ~IsNone(GetSubtitles(stream_url[1]))
  /\ DOMAIN resolved[1] = {"path"}

\* ------------------------------------------------------------------------
\* The token service answered with non-empty authparams.
TokenSucceeded ==
  /\ ~TokenFailed
  /\ input.token.text.value.d.token.d.authparams # <<>>

GrantedAuthParams == input.token.text.value.d.token.d.authparams

\* The URL in parsed form has a '?' when its query is not empty: url followed
\* by '?' and P, or by '&' and P, is url with the parameters of P behind its
\* own.
ClaimAppended(url, auth_params) ==
  [origin |-> url.origin, path |-> url.path,
   query |-> url.query \o auth_params]

\* get_auth_url has handed back its URL and nothing has rewritten it yet.
AuthUrlFresh ==
  /\ IsPlayVideo /\ ~IsNone(auth_url)
  /\ pc = "window" \/ (pc = "returned" /\ audio)

\* C21: Authorization success.  When the token service returns non-empty
\* authparams P, get_auth_url(url) returns url followed by P, after a '?'
\* for a url without a query and after a '&' otherwise, with nothing else of
\* url changed; the token request it made has for acl pattern the two path
\* segments that follow the leading '/' of url.
C21_AuthParamsAppended ==
  (AuthUrlFresh /\ TokenSucceeded)
  => /\ auth_url[1] = ClaimAppended(stream_url[1], GrantedAuthParams)
     /\ requests[Len(requests)]
          = [to |-> "token",
             acl |-> <<stream_url[1].path[1], stream_url[1].path[2]>>]

\* get_auth_url has handed back a URL that came with a query of its own,
\* the authparams behind it.
C21_Witness ==
  /\ AuthUrlFresh /\ TokenSucceeded
  /\ stream_url[1].query # <<>>
  /\ auth_url[1].query = stream_url[1].query \o GrantedAuthParams

\* C22: The emitted URL is the authorized one.  In every successful
\* play_video resolution for which the token service returned non-empty
\* authparams, the path of the item handed to the resolve callback contains
\* those authparams, for audio content as for video content.
C22_EmittedUrlIsAuthorized ==
  (IsPlayVideo /\ resolved # <<>> /\ TokenSucceeded)
  => \A i \in 1..Len(GrantedAuthParams) :
       HasParam(resolved[1].path, GrantedAuthParams[i][1],
                GrantedAuthParams[i][2])

\* ------------------------------------------------------------------------
\* The json entries of the calls of build_entry, in order.
EntryJsons == [i \in 1..Len(entries) |-> entries[i].entry]

\* C24: Entry order of a whole-chapter listing.  build_episode_menu called
\* with video_id equal to the chapter id and include_segments=True emits
\* first the entry of the located chapter, then, only if audio is true and
\* the located chapter is at index 0, one entry for each remaining chapter
\* in chapterList order, then one entry per segment of the located chapter
\* in segmentList order, and no other entries.
C24_WholeChapterOrder ==
  (IsMenu /\ pc = "returned" /\ Fetched /\ input.include_segments)
  => \A k \in 1..Len(ChapterList) :
       (MenuLocated(k) /\ input.video_id = MenuChapterId[1])
       => /\ EntryJsons
               = <<ChapterList[k]>>
                 \o (IF input.audio /\ k = 1
                     THEN SubSeq(ChapterList, 2, Len(ChapterList))
                     ELSE <<>>)
                 \o ChapterList[k].segmentList
          /\ \A i \in 1..Len(entries) : ~entries[i].is_folder

\* The audio listing of chapter a, the first of two chapters, with its two
\* segments: four entries, the chapter, the other chapter, the segments.
C24_Witness ==
  /\ IsMenu /\ pc = "returned" /\ Fetched /\ input.include_segments
  /\ input.audio /\ MenuLocated(1) /\ input.video_id = MenuChapterId[1]
  /\ Len(ChapterList) = 2
  /\ Len(entries) = 4
  /\ entries[2].entry = ChapterList[2]
  /\ entries[3].entry.id = <<"s">>
  /\ entries[4].entry.id = <<"t">>

\* ------------------------------------------------------------------------
\* The license URL of the last WIDEVINE entry of the drmList of a resource
\* that has one.
LastWidevineUrl(res) ==
  LET ks == {k \in 1..Len(res.drmList) : res.drmList[k].type = "WIDEVINE"}
      last == CHOOSE k \in ks : \A j \in ks : j <= k
  IN res.drmList[last].licenseUrl

\* The selection is that of resource i: its URL, the tag of its protocol
\* and, when it has a WIDEVINE entry, the license URL of that entry, no
\* license URL otherwise.
SelectionOf(i) ==
  /\ stream_url = Some(resource_list[i].url)
  /\ mf_type = ClaimTag(resource_list[i])
  /\ IF HasWidevine(resource_list[i])
     THEN /\ lic_url = Some(LastWidevineUrl(resource_list[i]))
          /\ lic_type = "com.widevine.alpha"
     ELSE /\ ~HasDrmList(resource_list[i])
          /\ lic_url = None

\* C25: License data is paired with the adopted resource.  After every
\* resource scanned, and so at the end of the selection scan in play_video,
\* the stream URL, the manifest type and the license URL all come from the
\* same resource; the license URL is set if and only if the adopted
\* resource was adopted through a WIDEVINE entry of its own drmList, so
\* that a license URL recorded for an earlier DRM resource is cleared when a
\* later resource without drmList displaces it; the item of a video
\* resolution carries the license key of that resource and no other.
C25_LicensePairedWithAdopted ==
  (IsPlayVideo /\ idx >= 1 /\ ~IsNone(stream_url))
  => \E i \in 1..Len(resource_list) :
       /\ SelectionOf(i)
       /\ (resolved # <<>> /\ "manifest_type" \in DOMAIN resolved[1])
          => IF HasWidevine(resource_list[i])
             THEN /\ "license_key" \in DOMAIN resolved[1]
                  /\ resolved[1].license_key = LastWidevineUrl(resource_list[i])
             ELSE "license_key" \notin DOMAIN resolved[1]

\* A resource without drmList displaced a resource adopted through its
\* WIDEVINE entry: the scan is over with no license URL and the item handed
\* over has no license key.
C25_Witness ==
  /\ ScanComplete /\ Len(resource_list) = 2
  /\ Adoptable(resource_list[1], ClaimAudio)
  /\ HasWidevine(resource_list[1])
  /\ WeightAt(1) <= WeightAt(2)
  /\ Adoptable(resource_list[2], ClaimAudio)
  /\ ~HasDrmList(resource_list[2])
  /\ SelectionOf(2)
  /\ lic_url = None
  /\ Len(resolved) = 1
  /\ "license_key" \notin DOMAIN resolved[1]

\* ------------------------------------------------------------------------
\* The protocols of the audio whitelist.
AudioProtocols == {"HTTP", "HTTPS", "HTTP-MP3-STREAM"}

\* C26: Chapter media type overrides the caller's audio flag.  In
\* play_video, when the caller passed audio=False and the located chapter
\* has mediaType equal to 'AUDIO' (case-insensitive), the audio protocol
\* whitelist {HTTP, HTTPS, HTTP-MP3-STREAM} is used for selection and the
\* item is emitted on the audio path; when the caller passed audio=True the
\* audio path is used whatever the chapter's mediaType.
C26_MediaTypeOverridesFlag ==
  (IsPlayVideo /\ ~IsNone(chapter)
   /\ \/ input.audio
      \/ /\ "mediaType" \in DOMAIN chapter[1]
         /\ chapter[1].mediaType \in {"AUDIO", "audio"})
  => /\ pc \notin {"window", "emit"}
     /\ (ScanComplete
         /\ \E i \in 1..Len(resource_list) :
              /\ InWhitelist(resource_list[i], TRUE)
              /\ ~HasDrmList(resource_list[i]))
        => ~IsNone(stream_url)
     /\ (idx >= 1 /\ ~IsNone(stream_url))
        => \E i \in 1..Len(resource_list) :
             /\ IsAdopted(i)
             /\ Upper(resource_list[i].protocol) \in AudioProtocols
     /\ resolved # <<>>
        => /\ pc = "returned"
           /\ DOMAIN resolved[1] = {"path"}
           /\ resolved[1].path.origin = stream_url[1].origin

\* A call with audio=False on a chapter of media type 'audio' has handed
\* over the bare item of its HTTPS resource.
C26_Witness ==
  /\ IsPlayVideo /\ ~input.audio /\ pc = "returned"
  /\ ~IsNone(chapter)
  /\ "mediaType" \in DOMAIN chapter[1]
  /\ chapter[1].mediaType = "audio"
  /\ Len(resolved) = 1
  /\ DOMAIN resolved[1] = {"path"}
  /\ Upper(resource_list[1].protocol) = "HTTPS"
  /\ IsAdopted(1)

\* A call with audio=True on a chapter of media type VIDEO has handed over
\* the bare item of its HTTPS resource.
C26_WitnessCallerFlag ==
  /\ IsPlayVideo /\ input.audio /\ pc = "returned"
  /\ ~IsNone(chapter)
  /\ "mediaType" \in DOMAIN chapter[1]
  /\ chapter[1].mediaType = "VIDEO"
  /\ Len(resolved) = 1
  /\ DOMAIN resolved[1] = {"path"}

\* ========================================================================
\* The operations on the files of the profile directory and on the cache,
\* each one under a specification of its own.
\*
\* What these operations leave alone: the locals of play_video and
\* build_episode_menu.
handler == <<pc, json_response, chapter, resource_list, idx, current_weight, stream_url, lic_url, mf_type, lic_type, audio, auth_url, log, resolved, entries, exc>>

\* No play_video and no build_episode_menu is under way.
NoHandler ==
  /\ pc = "idle"
  /\ json_response = None
  /\ chapter = None
  /\ resource_list = <<>>
  /\ idx = 0
  /\ current_weight = -1
  /\ stream_url = None
  /\ lic_url = None
  /\ mf_type = Unbound
  /\ lic_type = Unbound
  /\ audio = FALSE
  /\ auth_url = None
  /\ log = <<>>
  /\ resolved = <<>>
  /\ entries = <<>>
  /\ exc = None

\* ------------------------------------------------------------------------
\* read_searches and write_search
\*
\* A file is missing, truncated (opened with 'w' and not yet written),
\* garbled (a JSON document followed by the rest of a longer one), or holds
\* the JSON list json.dump wrote, modelled by the list of its names.
Missing == [state |-> "missing"]
Truncated == [state |-> "truncated"]
Garbled == [state |-> "garbled"]
Stored(list) == [state |-> "json", list |-> list]

\* json.load(f) raises ValueError, which read_searches does not catch.
JsonLoadFails(f) == f.state \in {"truncated", "garbled"}

\* Variant of ReadSearches: always the empty list.
ReadSearches_Nothing(f) == <<>>

\* read_searches on a file json.load accepts or open() does not find: the
\* names of the entries, [] on IOError.
ReadSearches(f) == IF f.state = "json" THEN f.list ELSE <<>>

\* searches.remove(name), ValueError ignored: without the first occurrence.
RemoveFirst(searches, name) ==
  LET k == FirstIndex({i \in 1..Len(searches) : searches[i] = name})
  IN IF k = 0 THEN searches
     ELSE SubSeq(searches, 1, k - 1) \o SubSeq(searches, k + 1, Len(searches))

\* searches.pop() raises IndexError on the empty list.
PopRaises(searches, name, max_entries) ==
  LET s1 == RemoveFirst(searches, name)
  IN Len(s1) >= max_entries /\ s1 = <<>>

\* Variant of InsertSearch: the name is not removed first.
InsertSearch_NoRemove(searches, name, max_entries) ==
  <<name>> \o (IF Len(searches) >= max_entries
               THEN SubSeq(searches, 1, Len(searches) - 1)
               ELSE searches)

\* Lines 1729-1735: remove, pop when full, insert in front.
InsertSearch(searches, name, max_entries) ==
  LET s1 == RemoveFirst(searches, name)
  IN <<name>> \o (IF Len(s1) >= max_entries
                  THEN SubSeq(s1, 1, Len(s1) - 1)
                  ELSE s1)

Names == {"a", "b", "c"}
MaxEntries == 2
MaxWrites == 3

\* The lists of distinct names of at most n entries.
DistinctLists(n) ==
  {l \in SeqUpTo(Names, n) : \A i, j \in 1..Len(l) : l[i] = l[j] => i = j}

\* write_search(filename, name, max_entries), one call after the other:
\* the whole handler.  A call that raises leaves the file as it is.
WriteSearch ==
  /\ input.op = "write_search"
  /\ Len(history) < MaxWrites
  /\ \E name \in Names :
       /\ history' = Append(history, name)
       /\ IF JsonLoadFails(file)
          THEN /\ ret' = Some("ValueError")
               /\ UNCHANGED file
          ELSE IF PopRaises(ReadSearches(file), name, input.max_entries)
               THEN /\ ret' = Some("IndexError")
                    /\ UNCHANGED file
               ELSE /\ ret' = None
                    /\ file' = Stored(InsertSearch(ReadSearches(file), name,
                                                   input.max_entries))
  /\ UNCHANGED <<input, cache, requests, handler, calls, page>>

NextSearches == WriteSearch

\* The file is missing or holds at most max_entries distinct names.
InitSearches ==
  /\ \E m \in 0..MaxEntries :
       \E f \in {Missing} \cup {Stored(l) : l \in DistinctLists(m)} :
         /\ input = [op |-> "write_search", max_entries |-> m, stored |-> f]
         /\ file = f
  /\ NoHandler
  /\ cache = {}
  /\ requests = <<>>
  /\ calls = <<>>
  /\ history = <<>>
  /\ page = None
  /\ ret = None

SpecSearches == InitSearches /\ [][NextSearches]_vars

\* ------------------------------------------------------------------------
\* The first n entries of a list.
Take(list, n) == SubSeq(list, 1, IF n < Len(list) THEN n ELSE Len(list))

Reverse(list) == [i \in 1..Len(list) |-> list[Len(list) + 1 - i]]

\* A list without the entries that occurred before in it.
RECURSIVE Dedupe(_)
Dedupe(list) ==
  IF list = <<>> THEN <<>>
  ELSE LET front == Dedupe(SubSeq(list, 1, Len(list) - 1))
           x == list[Len(list)]
       IN IF \E i \in 1..Len(front) : front[i] = x THEN front
          ELSE Append(front, x)

\* The names by last write, the latest first, then those of the list the
\* calls started from.
ByLastWrite == Dedupe(Reverse(history) \o ReadSearches(input.stored))

StoredList == ReadSearches(file)

\* C27: Recent-search list is a bounded most-recently-used list.  After any
\* sequence of sequential write_search calls with the same max_entries,
\* starting from a missing file or a stored list of at most max_entries
\* distinct names, the stored list contains no duplicates, has at most
\* max_entries entries, has the most recently written name first and the
\* remaining names in order of their last write; when the list is full and
\* a new name is written, exactly the least recently written name, the last
\* of the list, is dropped.
C27_BoundedMostRecentlyUsed ==
  /\ [](input.op = "write_search"
        => /\ \A i, j \in 1..Len(StoredList) :
                StoredList[i] = StoredList[j] => i = j
           /\ Len(StoredList) <= input.max_entries
           /\ (history # <<>> /\ input.max_entries >= 1)
              => /\ file.state = "json"
                 /\ StoredList[1] = history[Len(history)]
                 /\ IsNone(ret)
           /\ StoredList = Take(ByLastWrite, input.max_entries))
  /\ [][(input.op = "write_search"
         /\ input.max_entries >= 1
         /\ Len(StoredList) = input.max_entries
         /\ \A i \in 1..Len(StoredList) :
              StoredList[i] # history'[Len(history')])
        => file' = Stored(<<history'[Len(history')]>>
                          \o SubSeq(StoredList, 1, Len(StoredList) - 1))]_vars

\* Three names were written to a list of two entries: the first one
\* written is dropped, the last one written is in front.
C27_Witness ==
  /\ input.op = "write_search" /\ input.max_entries = 2
  /\ history = <<"a", "b", "c">>
  /\ StoredList = <<"c", "b">>

\* ------------------------------------------------------------------------
\* Two invocations of write_search on the same file, step by step: the
\* read of the stored list, the open() for writing, which truncates the
\* file, and the json.dump, which writes from the start of the file.  The
\* names have one length, so that a list of more entries is the longer
\* text.
Invocations == {1, 2}

\* max_entries=10, the value the call sites leave to the default.
DefaultMaxEntries == 10

Event(ev, p) == [ev |-> ev, p |-> p]

\* Lines 1728-1736: read_searches and the new list; the ValueError of
\* json.load and the IndexError of pop() leave write_search.
SearchRead(p) ==
  /\ calls[p].pc = "read"
  /\ history' = Append(history, Event("read", p))
  /\ IF \/ JsonLoadFails(file)
        \/ PopRaises(ReadSearches(file), calls[p].name, input.max_entries)
     THEN calls' = [calls EXCEPT ![p].pc = "raised"]
     ELSE calls' = [calls EXCEPT
                      ![p].pc = "open",
                      ![p].searches = InsertSearch(ReadSearches(file),
                                                   calls[p].name,
                                                   input.max_entries)]
  /\ UNCHANGED <<input, cache, requests, handler, file, page, ret>>

\* Line 1741: open(file_path, 'w').
SearchOpen(p) ==
  /\ calls[p].pc = "open"
  /\ history' = Append(history, Event("open", p))
  /\ file' = Truncated
  /\ calls' = [calls EXCEPT ![p].pc = "dump"]
  /\ UNCHANGED <<input, cache, requests, handler, page, ret>>

\* What the file holds once text is written from its start: the text, or,
\* over a longer text written since the file was opened, the text followed
\* by the rest of the longer one.
Overwrite(f, searches) ==
  IF f.state = "garbled" \/ (f.state = "json" /\ Len(f.list) > Len(searches))
  THEN Garbled
  ELSE Stored(searches)

\* Line 1742: json.dump(write_dict_list, f) and the close of the file.
SearchDump(p) ==
  /\ calls[p].pc = "dump"
  /\ history' = Append(history, Event("dump", p))
  /\ file' = Overwrite(file, calls[p].searches)
  /\ calls' = [calls EXCEPT ![p].pc = "done"]
  /\ UNCHANGED <<input, cache, requests, handler, page, ret>>

NextRace ==
  \E p \in Invocations : SearchRead(p) \/ SearchOpen(p) \/ SearchDump(p)

InitRace ==
  /\ \E f \in {Missing} \cup {Stored(l) : l \in DistinctLists(MaxEntries)} :
       /\ input = [op |-> "write_search", max_entries |-> DefaultMaxEntries,
                   stored |-> f]
       /\ file = f
  /\ \E n1 \in Names, n2 \in Names :
       calls = <<[pc |-> "read", name |-> n1, searches |-> <<>>],
                 [pc |-> "read", name |-> n2, searches |-> <<>>]>>
  /\ NoHandler
  /\ cache = {}
  /\ requests = <<>>
  /\ history = <<>>
  /\ page = None
  /\ ret = None

SpecRace == InitRace /\ [][NextRace]_vars

\* ------------------------------------------------------------------------
\* The position of an event in the history, 0 when it did not happen.
Pos(ev, p) == FirstIndex({i \in 1..Len(history) : history[i] = Event(ev, p)})

Wrote(p) == Pos("dump", p) > 0

Holds(list, name) == \E i \in 1..Len(list) : list[i] = name

\* Invocation j read the list before invocation i wrote it, and wrote its
\* own list after i did.
ReadBeforeWrittenAfter(i, j) ==
  /\ Wrote(i) /\ Wrote(j)
  /\ Pos("read", j) < Pos("dump", i)
  /\ Pos("dump", i) < Pos("dump", j)

BothEnded == \A p \in Invocations : calls[p].pc \in {"done", "raised"}

\* C23: Unguarded read-then-write of the persisted lists.  write_search
\* reads the stored list, modifies it and writes it back without any lock:
\* once two invocations on the same file have ended and the file holds a
\* list, the name of an invocation that wrote is missing from it exactly
\* when the other invocation read the list before that write and wrote
\* its own list after it (neither its own name nor the list read holding
\* the name); the list starts with the name of the invocation that wrote
\* last.  The state with a name missing is the lost update.
C23_LostExactlyByInterleaving ==
  (input.op = "write_search" /\ calls # <<>> /\ BothEnded
   /\ file.state = "json")
  => \A i, j \in Invocations :
       (i # j /\ Wrote(i))
       => /\ ~Holds(file.list, calls[i].name)
             <=> /\ ReadBeforeWrittenAfter(i, j)
                 /\ calls[j].name # calls[i].name
                 /\ ~Holds(ReadSearches(input.stored), calls[i].name)
          /\ (~Wrote(j) \/ Pos("dump", j) < Pos("dump", i))
             => file.list[1] = calls[i].name

\* The lost update: both invocations wrote, the first one the name a and
\* the second one the name b, and the stored list does not hold a.
C23_Witness ==
  /\ input.op = "write_search" /\ calls # <<>> /\ BothEnded
  /\ Wrote(1) /\ Wrote(2)
  /\ calls[1].name = "a" /\ calls[2].name = "b"
  /\ file.state = "json"
  /\ ~Holds(file.list, "a")
  /\ Holds(file.list, "b")

\* ------------------------------------------------------------------------
\* open_url, call after call, on a cache whose entries expire.
\*
\* The cache is the store of the host, shared by every invocation; an
\* entry is set with expiration=timedelta(hours=2) and cache.get answers
\* None once it has expired.  open_url reads the cache at line 188 and, on
\* a hit, once more at line 206: the two reads are two steps.
Urls == {"u", "v"}
MaxCalls == 3

Responses ==
  {[kind |-> "error"],
   [kind |-> "http", ok |-> FALSE],
   [kind |-> "http", ok |-> TRUE, text |-> EmptyText],
   Ok("one"),
   Ok("two")}

\* What open_url handed back: a text, Python's None, or an exception.
PyNone == [kind |-> "None"]
Raised(e) == [kind |-> "raised", exc |-> e]

\* Lines 185-205: the read of the cache and, on a miss, the request, the
\* cache.set and the return; on a hit the call stands before line 206.
OpenUrlCall ==
  /\ input.op = "open_url"
  /\ calls = <<>>
  /\ Len(history) < MaxCalls
  /\ \E url \in Urls, use_cache \in BOOLEAN, resp \in Responses :
       LET cache_response == IF use_cache THEN CacheGet(cache, url) ELSE None
           r == OpenUrl(cache, url, use_cache, resp)
       IN IF CacheMiss(cache_response)
          THEN /\ cache' = r.cache
               /\ requests' = Append(requests, url)
               /\ history' = Append(history, [url |-> url, resp |-> resp])
               /\ ret' = IF r.raised THEN Some(Raised(r.exc)) ELSE Some(r.text)
               /\ UNCHANGED calls
          ELSE /\ calls' = <<[url |-> url, cache_response |-> cache_response[1]]>>
               /\ UNCHANGED <<cache, requests, history, ret>>
  /\ UNCHANGED <<input, handler, file, page>>

\* Line 206: return self.cache.get(...), the second read of the cache.
OpenUrlReturn ==
  /\ calls # <<>>
  /\ input.op = "open_url"
  /\ LET again == CacheGet(cache, calls[1].url)
     IN ret' = IF IsNone(again) THEN Some(PyNone) ELSE again
  /\ calls' = <<>>
  /\ UNCHANGED <<input, cache, requests, handler, file, history, page>>

\* Line 204: the two hours of an entry are over.
CacheExpire ==
  /\ input.op = "open_url"
  /\ \E e \in cache : cache' = cache \ {e}
  /\ UNCHANGED <<input, requests, handler, file, calls, history, page, ret>>

NextCache == OpenUrlCall \/ OpenUrlReturn \/ CacheExpire

InitCache ==
  /\ input = [op |-> "open_url"]
  /\ NoHandler
  /\ cache = {}
  /\ requests = <<>>
  /\ file = Missing
  /\ calls = <<>>
  /\ history = <<>>
  /\ page = None
  /\ ret = None

SpecCache == InitCache /\ [][NextCache]_vars

\* ------------------------------------------------------------------------
\* An OK response with this body was received for this URL.
ReceivedOk(url, text) ==
  \E i \in 1..Len(history) :
    /\ history[i].url = url
    /\ history[i].resp = [kind |-> "http", ok |-> TRUE, text |-> text]

\* The step is a call that got a response that is not OK.
GotNotOk ==
  /\ Len(history') = Len(history) + 1
  /\ history'[Len(history')].resp = [kind |-> "http", ok |-> FALSE]

\* The step is the return of a call that found a non-empty entry.
ReturnsAfterHit == calls # <<>> /\ calls' = <<>>

\* The parts of C28 on what is cached and on the response that is not OK:
\* an entry of the cache is the body of an OK response received for its
\* URL, and a call whose response is not OK returns '' and leaves the cache
\* as it is.
NeverCachesFailure ==
  /\ [](input.op = "open_url"
        => \A e \in cache : ReceivedOk(e.url, e.text))
  /\ [][(input.op = "open_url" /\ GotNotOk)
        => ret' = Some(EmptyText) /\ cache' = cache]_vars

\* C28: open_url never caches a failure.  After any sequence of open_url
\* calls, the cache entry for a URL, if present, is the body of an OK
\* response previously received for that same URL; a call whose HTTP
\* response is not OK returns the empty string and leaves the cache
\* unchanged, and a call with use_cache=True that finds a non-empty cached
\* entry returns it without issuing an HTTP request.
C28_NeverCachesFailure ==
  /\ NeverCachesFailure
  /\ [][(input.op = "open_url" /\ ReturnsAfterHit)
        => /\ ret' = Some(calls[1].cache_response)
           /\ requests' = requests]_vars

\* ------------------------------------------------------------------------
\* manage_favourite_shows, read_favourite_show_ids and
\* write_favourite_show_ids
\*
\* The favourites file holds the list of {'id': show_id} entries, modelled
\* by the list of ids; the shows on offer are modelled by the list of
\* their ids, each show once.
ShowIds == {"p", "q", "r"}
MaxShows == 2
MaxEdits == 1

ShowLists ==
  {l \in SeqUpTo(ShowIds, MaxShows) : \A i, j \in 1..Len(l) : l[i] = l[j] => i = j}

\* read_favourite_show_ids on a file json.load accepts or open() does not
\* find: the ids of the entries, [] on IOError.
ReadFavouriteShowIds(f) == IF f.state = "json" THEN f.list ELSE <<>>

\* What dialog.multiselect hands back for a set of ticked rows: their
\* indices (from 0) in rising order.
RECURSIVE Rising(_)
Rising(inds) ==
  IF inds = {} THEN <<>>
  ELSE LET least == CHOOSE i \in inds : \A j \in inds : i <= j
       IN <<least>> \o Rising(inds \ {least})

\* ancient_ids = [x for x in stored_favids if x not in ids]
RECURSIVE AncientIds(_, _)
AncientIds(stored_favids, ids) ==
  IF stored_favids = <<>> THEN <<>>
  ELSE LET x == Head(stored_favids)
           rest == AncientIds(Tail(stored_favids), ids)
       IN IF \E i \in 1..Len(ids) : ids[i] = x THEN rest ELSE <<x>> \o rest

\* Variant of NewFavids: the ancient ids are not added.
NewFavids_SelectedOnly(ids, selected_inds, ancient_ids) ==
  [k \in 1..Len(selected_inds) |-> ids[selected_inds[k] + 1]]

\* new_favids = [ids[ind] for ind in selected_inds]; new_favids += ancient_ids
NewFavids(ids, selected_inds, ancient_ids) ==
  [k \in 1..Len(selected_inds) |-> ids[selected_inds[k] + 1]] \o ancient_ids

\* Lines 1640-1671: the whole handler for the shows ids and what the dialog
\* hands back, None or the list of indices.  The ValueError of json.load in
\* read_favourite_show_ids leaves the handler before the dialog.
ManageFavouriteShows ==
  /\ input.op = "manage_favourite_shows"
  /\ Len(history) < MaxEdits
  /\ \E ids \in ShowLists :
       IF JsonLoadFails(file)
       THEN /\ ret' = Some(Raised("ValueError"))
            /\ history' = Append(history, [ids |-> ids, dialog |-> "none"])
            /\ UNCHANGED file
       ELSE \E selected_inds \in {None} \cup {Some(Rising(t)) : t \in SUBSET (0..(Len(ids) - 1))} :
              /\ ret' = None
              /\ history' = Append(history, [ids |-> ids, dialog |-> "shown", selected_inds |-> selected_inds, stored_favids |-> ReadFavouriteShowIds(file)])
              /\ IF IsNone(selected_inds)
                 THEN UNCHANGED file
                 ELSE file' = Stored(NewFavids(ids, selected_inds[1], AncientIds(ReadFavouriteShowIds(file), ids)))
  /\ UNCHANGED <<input, cache, requests, handler, calls, page>>

NextFavourites == ManageFavouriteShows

InitFavourites ==
  /\ input = [op |-> "manage_favourite_shows"]
  /\ file \in {Missing, Garbled} \cup {Stored(l) : l \in SeqUpTo(ShowIds, MaxShows)}
  /\ NoHandler
  /\ cache = {}
  /\ requests = <<>>
  /\ calls = <<>>
  /\ history = <<>>
  /\ page = None
  /\ ret = None

SpecFavourites == InitFavourites /\ [][NextFavourites]_vars

\* ------------------------------------------------------------------------
\* The dialog of the step was confirmed, or cancelled.
Edited == Len(history') = Len(history) + 1 /\ history'[Len(history')].dialog = "shown"
Confirmed == Edited /\ ~IsNone(history'[Len(history')].selected_inds)
Cancelled == Edited /\ IsNone(history'[Len(history')].selected_inds)

\* The ids selected in the dialog of the step, in the order of the dialog,
\* and the stored ids that are not on offer, in stored order.
SelectedIds ==
  LET h == history'[Len(history')]
  IN [k \in 1..Len(h.selected_inds[1]) |-> h.ids[h.selected_inds[1][k] + 1]]

AbsentIds ==
  LET h == history'[Len(history')]
  IN SelectSeq(ReadFavouriteShowIds(file), LAMBDA x : ~Holds(h.ids, x))

\* C29: Editing favourites keeps unknown stored ids.  In
\* manage_favourite_shows every stored favourite id that is absent from the
\* currently available show list is still in the list written after the
\* user confirms a selection, the written list being the ids selected in
\* the dialog followed by those absent ids; when the dialog is cancelled
\* (returns None) the favourites file is not written at all.
C29_KeepsUnknownStoredIds ==
  [][(input.op = "manage_favourite_shows")
     => /\ Confirmed
           => /\ file'.state = "json"
              /\ file'.list = SelectedIds \o AbsentIds
              /\ \A i \in 1..Len(ReadFavouriteShowIds(file)) :
                   ~Holds(history'[Len(history')].ids, ReadFavouriteShowIds(file)[i])
                   => Holds(file'.list, ReadFavouriteShowIds(file)[i])
        /\ Cancelled => file' = file]_vars

\* The shows p and q were on offer with r and q stored, and p was ticked:
\* the file holds p and then r.
C29_Witness ==
  /\ input.op = "manage_favourite_shows" /\ Len(history) = 1
  /\ history[1].dialog = "shown"
  /\ history[1].ids = <<"p", "q">>
  /\ history[1].stored_favids = <<"r", "q">>
  /\ history[1].selected_inds = Some(<<0>>)
  /\ file = Stored(<<"p", "r">>)

\* The dialog was cancelled on a missing file: the file is still missing.
C29_WitnessCancelled ==
  /\ input.op = "manage_favourite_shows" /\ Len(history) = 1
  /\ history[1].dialog = "shown"
  /\ IsNone(history[1].selected_inds)
  /\ file = Missing

\* ------------------------------------------------------------------------
\* The pages of build_topics_menu (without apiv3_url) and build_audio_menu
\*
\* The id list extract_id_list hands back is the same on every page; the
\* code looks at the positions of the ids only, so the ids are named by
\* their positions.
MaxIds == 21

\* self.number_of_episodes = 10
NumberOfEpisodes == 10

PageSizes == {1, 2, NumberOfEpisodes}

IdList(n) == [i \in 1..n |-> <<"vid", i>>]

\* page = int(page), 1 on TypeError (page is None).
IntPage(arg) == IF IsNone(arg) THEN 1 ELSE arg[1]

\* id_list[(page - 1) * n : page * n] for page >= 1
ReducedIdList(id_list, p, n) ==
  LET first == (p - 1) * n + 1
      last == IF p * n < Len(id_list) THEN p * n ELSE Len(id_list)
  IN IF first > last THEN <<>> ELSE SubSeq(id_list, first, last)

\* Variant of HasNextPage: the id before id_list[page * n] is looked up.
HasNextPage_OneBefore(id_list, p, n) == Len(id_list) >= p * n

\* vid = id_list[page * n] does not raise IndexError.
HasNextPage(id_list, p, n) == Len(id_list) > p * n

\* Lines 883-907 and 2060-2084: the ids of the page handed to
\* build_episode_menu, in order, and the next-page item.
LegacyPage(is_audio) ==
  /\ page # None
  /\ LET p == IntPage(page[1])
         reduced_id_list == ReducedIdList(input.id_list, p, input.number_of_episodes)
         next_item == IF HasNextPage(input.id_list, p, input.number_of_episodes) THEN Some(p + 1) ELSE None
     IN /\ calls' = Append(calls, [page |-> p, vids |-> reduced_id_list, audio |-> is_audio, next_item |-> next_item])
        /\ history' = history \o reduced_id_list
        /\ ret' = next_item
  /\ page' = None
  /\ UNCHANGED <<input, cache, requests, handler, file>>

BuildTopicsMenu == input.op = "build_topics_menu" /\ LegacyPage(FALSE)

BuildAudioMenu == input.op = "build_audio_menu" /\ LegacyPage(TRUE)

\* The next-page item is followed: the host calls the menu with its page.
FollowNextPage ==
  /\ input.op \in {"build_topics_menu", "build_audio_menu"}
  /\ page = None
  /\ ret # None
  /\ page' = Some(Some(ret[1]))
  /\ ret' = None
  /\ UNCHANGED <<input, cache, requests, handler, file, calls, history>>

NextPages == BuildTopicsMenu \/ BuildAudioMenu \/ FollowNextPage

InitPages ==
  /\ \E op \in {"build_topics_menu", "build_audio_menu"}, n \in 0..MaxIds, size \in PageSizes, arg \in {None, Some(1), Some(2), Some(3)} :
       /\ input = [op |-> op, id_list |-> IdList(n), number_of_episodes |-> size, page |-> arg]
       /\ page = Some(arg)
  /\ NoHandler
  /\ cache = {}
  /\ requests = <<>>
  /\ file = Missing
  /\ calls = <<>>
  /\ history = <<>>
  /\ ret = None

\* A menu call that is due runs to its end, and the next-page item on the
\* screen is followed.
SpecPages == InitPages /\ [][NextPages]_vars /\ WF_vars(NextPages)

\* ------------------------------------------------------------------------
IsPages == input.op \in {"build_topics_menu", "build_audio_menu"}

\* The number of pages of the list: ceil(|L| / N), one for the empty list.
PagesOf(id_list, n) ==
  IF id_list = <<>> THEN 1 ELSE (Len(id_list) + n - 1) \div n

\* No call is due and no next-page item is on the screen.
LastPageReached == page = None /\ ret = None

\* The ids at the positions (p-1)*N .. p*N-1 (from 0) of the list that
\* exist, in order.
SliceOf(id_list, p, n) ==
  SelectSeq(id_list, LAMBDA v : (p - 1) * n < v[2] /\ v[2] <= p * n)

\* C30: Legacy pagination covers the list exactly once and ends.  In
\* build_topics_menu (non-apiv3 path) and build_audio_menu, for an
\* extracted id list L and page size N = number_of_episodes, page p
\* (p >= 1) processes exactly the ids L[(p-1)*N .. p*N-1] in order and adds
\* a next-page item pointing to page p+1 if and only if L has more than p*N
\* ids; hence following next-page items from page 1 visits every id of L
\* exactly once and reaches a page without a next-page item after
\* ceil(|L|/N) pages (one page when L is empty), and that page is always
\* reached.
C30_PaginationCoversOnceAndEnds ==
  /\ [](IsPages
        => /\ \A k \in 1..Len(calls) :
                /\ calls[k].vids = SliceOf(input.id_list, calls[k].page, input.number_of_episodes)
                /\ IF Len(input.id_list) > calls[k].page * input.number_of_episodes
                   THEN calls[k].next_item = Some(calls[k].page + 1)
                   ELSE calls[k].next_item = None
           /\ input.page \in {None, Some(1)}
              => /\ Len(calls) <= PagesOf(input.id_list, input.number_of_episodes)
                 /\ \A k \in 1..Len(calls) : calls[k].page = k
                 /\ LastPageReached
                    => /\ history = input.id_list
                       /\ Len(calls) = PagesOf(input.id_list, input.number_of_episodes))
  /\ (IsPages => <>[]LastPageReached)

\* The 21 ids of a list were shown on three pages of 10, 10 and 1 ids, from
\* a call without page, and the third page has no next-page item.
C30_Witness ==
  /\ IsPages /\ IsNone(input.page) /\ LastPageReached
  /\ input.number_of_episodes = NumberOfEpisodes
  /\ Len(input.id_list) = 21
  /\ Len(calls) = 3
  /\ Len(calls[3].vids) = 1
  /\ history = input.id_list
=============================================================================
